---- MODULE Spec2Model ----
(***************************************************************************)
(* Request handlers of the ADA compliance dashboard over the spreadsheet   *)
(* Row-Store: add-website, remove-website, professional-data,              *)
(* customer-data, validate-session and cancel-subscription.                *)
(*                                                                         *)
(* A string is a sequence of pieces.  A piece is a TLA+ string standing    *)
(* for a fixed run of characters: "," is one comma, " " is one blank,      *)
(* "https://a/" is an absolute URL prefix (scheme, host and the slash that *)
(* starts the path), "b.example" is text without a scheme.  Concatenation, *)
(* split, trim and join work on pieces as the JavaScript methods work on   *)
(* characters.                                                             *)
(***************************************************************************)
EXTENDS Integers, Sequences, FiniteSets, TLC

VARIABLES
    customers,      \* Customers sheet: data row index -> cells of that row
    subscriptions,  \* Subscriptions sheet: data row index -> cells of that row
    scans,          \* Scan Summary sheet: data row index -> cells of that row
    violations,     \* Violations sheet: data row index -> cells of that row
    now,            \* wall clock, seconds
    issuedAt,       \* row index -> time the customer's credentials were issued
    pc,             \* per request slot: "idle", "write", "done"
    req,            \* per request slot: the request being served
    local,          \* per request slot: the handler's local variables
    resp            \* per request slot: the response sent

vars == <<customers, subscriptions, scans, violations, now, issuedAt, pc, req, local, resp>>

(***************************************************************************)
(* Bounds                                                                  *)
(***************************************************************************)
NumProcs == 2

Procs == 1..NumProcs

(***************************************************************************)
(* String primitives                                                       *)
(***************************************************************************)
EmptyStr == <<>>

RECURSIVE TrimStart(_)
TrimStart(s) ==
    IF s # <<>> /\ Head(s) = " " THEN TrimStart(Tail(s)) ELSE s

RECURSIVE TrimEnd(_)
TrimEnd(s) ==
    IF s # <<>> /\ s[Len(s)] = " " THEN TrimEnd(SubSeq(s, 1, Len(s) - 1)) ELSE s

\* String.prototype.trim
Trim(s) == TrimEnd(TrimStart(s))

\* String.prototype.split(','): the pieces between commas, empty ones kept
RECURSIVE SplitFrom(_, _)
SplitFrom(s, acc) ==
    IF s = <<>> THEN <<acc>>
    ELSE IF Head(s) = "," THEN <<acc>> \o SplitFrom(Tail(s), <<>>)
    ELSE SplitFrom(Tail(s), Append(acc, Head(s)))

Split(s) == SplitFrom(s, <<>>)

\* Array.prototype.join(',')
RECURSIVE Join(_)
Join(list) ==
    IF list = <<>> THEN <<>>
    ELSE IF Len(list) = 1 THEN list[1]
    ELSE list[1] \o <<",">> \o Join(Tail(list))

\* Array.prototype.map(url => url.trim())
MapTrim(list) == [i \in 1..Len(list) |-> Trim(list[i])]

\* Boolean(s) for a string s
Truthy(s) == s # <<>>

\* Array.prototype.includes
Includes(list, s) == \E i \in 1..Len(list) : list[i] = s

\* customer[5].split(',').map(url => url.trim()).filter(Boolean)
ParseUrls(cell) == SelectSeq(MapTrim(Split(cell)), Truthy)

SchemePieces == {"https://a/", "https://b/", "https://w/", "https://x/",
                 "https://y/", "https://z/", "https://v/"}

\* new URL(s) does not throw: s is an absolute URL.  Every piece after the
\* prefix lies in the path, where commas and blanks are accepted.
UrlParses(s) == s # <<>> /\ Head(s) \in SchemePieces

(***************************************************************************)
(* Numbers and dates in cells                                              *)
(*                                                                         *)
(* A number or a date string is the sequence of its characters.  A time    *)
(* value is the number of minutes since the epoch (the handlers never see  *)
(* a finer grain).  The Date operations follow the language's definitions: *)
(* parse of a date-only string is UTC midnight, getDate and setDate work   *)
(* in local time, toISOString in UTC.                                      *)
(***************************************************************************)
DigitChars == <<"0", "1", "2", "3", "4", "5", "6", "7", "8", "9">>

Digits == {DigitChars[i] : i \in 1..Len(DigitChars)}

IsDigit(c) == c \in Digits

DigitValueOf == [c \in Digits |-> (CHOOSE i \in 1..Len(DigitChars) : DigitChars[i] = c) - 1]

DigitValue(c) == DigitValueOf[c]

RECURSIVE DigitsValue(_)
DigitsValue(ds) ==
    IF ds = <<>> THEN 0
    ELSE DigitsValue(SubSeq(ds, 1, Len(ds) - 1)) * 10 + DigitValue(ds[Len(ds)])

\* String(n).padStart(width, '0')
RECURSIVE PadStart(_, _)
PadStart(n, width) ==
    IF width = 0 THEN <<>>
    ELSE Append(PadStart(n \div 10, width - 1), DigitChars[(n % 10) + 1])

MinutesPerDay == 24 * 60

\* offset of local time from UTC in minutes: the platform runs its
\* functions in UTC
LocalTZA == 0

LocalTime(t) == t + LocalTZA

UTC(t) == t - LocalTZA

IsLeap(y) == (y % 4 = 0 /\ y % 100 # 0) \/ y % 400 = 0

DaysInMonth(y, m) ==
    IF m = 2 THEN (IF IsLeap(y) THEN 29 ELSE 28)
    ELSE IF m \in {4, 6, 9, 11} THEN 30 ELSE 31

\* day number (days since the epoch) of a year, month and day of month; the
\* day of month may run past the end of the month
DaysFromCivil(y, m, d) ==
    LET y2  == IF m <= 2 THEN y - 1 ELSE y
        era == y2 \div 400
        yoe == y2 - era * 400
        mp  == (m + 9) % 12
        doy == ((153 * mp + 2) \div 5) + d - 1
        doe == yoe * 365 + (yoe \div 4) - (yoe \div 100) + doy
    IN  era * 146097 + doe - 719468

\* <<year, month, day of month>> of a day number
CivilFromDays(z) ==
    LET z2  == z + 719468
        era == z2 \div 146097
        doe == z2 - era * 146097
        yoe == (doe - (doe \div 1460) + (doe \div 36524) - (doe \div 146096)) \div 365
        doy == doe - (365 * yoe + (yoe \div 4) - (yoe \div 100))
        mp  == (5 * doy + 2) \div 153
        d   == doy - ((153 * mp + 2) \div 5) + 1
        m   == IF mp < 10 THEN mp + 3 ELSE mp - 9
        y   == yoe + era * 400 + (IF m <= 2 THEN 1 ELSE 0)
    IN  <<y, m, d>>

\* the date-only form YYYY-MM-DD naming a day of the calendar
IsIsoDate(s) ==
    /\ Len(s) = 10
    /\ s[5] = "-" /\ s[8] = "-"
    /\ \A i \in {1, 2, 3, 4, 6, 7, 9, 10} : IsDigit(s[i])
    /\ DigitsValue(SubSeq(s, 6, 7)) \in 1..12
    /\ DigitsValue(SubSeq(s, 9, 10)) \in
          1..DaysInMonth(DigitsValue(SubSeq(s, 1, 4)), DigitsValue(SubSeq(s, 6, 7)))

\* new Date(s) for a date-only string: the time value of UTC midnight
DateParse(s) ==
    DaysFromCivil(DigitsValue(SubSeq(s, 1, 4)), DigitsValue(SubSeq(s, 6, 7)),
                  DigitsValue(SubSeq(s, 9, 10))) * MinutesPerDay

\* Date.prototype.getDate: the day of the month in local time
GetDate(t) == CivilFromDays(LocalTime(t) \div MinutesPerDay)[3]

\* Date.prototype.setDate: the same local month and time of day, on day dt
SetDate(t, dt) ==
    LET lt == LocalTime(t)
        c  == CivilFromDays(lt \div MinutesPerDay)
    IN  UTC((DaysFromCivil(c[1], c[2], 1) + dt - 1) * MinutesPerDay
            + (lt % MinutesPerDay))

\* Date.prototype.toISOString: YYYY-MM-DDTHH:mm:ss.sssZ in UTC
ToISOString(t) ==
    LET c   == CivilFromDays(t \div MinutesPerDay)
        tod == t % MinutesPerDay
    IN  PadStart(c[1], 4) \o <<"-">> \o PadStart(c[2], 2) \o <<"-">>
        \o PadStart(c[3], 2) \o <<"T">> \o PadStart(tod \div 60, 2) \o <<":">>
        \o PadStart(tod % 60, 2) \o <<":00.000Z">>

\* s.split('T')[0]
RECURSIVE BeforeT(_)
BeforeT(s) ==
    IF s = <<>> \/ Head(s) = "T" THEN <<>>
    ELSE <<Head(s)>> \o BeforeT(Tail(s))

DayAfterSame(d) == d

DayAfter(d) == d + 1

\* formattedCancellationDate
CancellationDate(current_period_end) ==
    LET endDate == DateParse(current_period_end)
    IN  BeforeT(ToISOString(SetDate(endDate, DayAfter(GetDate(endDate)))))

(***************************************************************************)
(* The dashboard aggregation of customer-data: the customer's scans, the   *)
(* latest of them with its violations, and the historical series.  A row   *)
(* of the Scan Summary sheet is a record of its cells c0 (scan_id), c1     *)
(* (customer_id), c2 (website_url), c3 (pages_scanned), c4                 *)
(* (compliance_score), ..., c9 (minor_count), c10 (scan_date); a row of    *)
(* the Violations sheet of c0 (violation_id), c1 (scan_id), c4 (rule_id).  *)
(***************************************************************************)
HISTORY_LENGTH == 10

RECURSIVE LeadingDigits(_)
LeadingDigits(s) ==
    IF s = <<>> \/ ~IsDigit(Head(s)) THEN <<>>
    ELSE <<Head(s)>> \o LeadingDigits(Tail(s))

\* parseInt(cell) || 0: the number written by the leading digits of the
\* cell, 0 when it has none
ParseIntOrZero(cell) == DigitsValue(LeadingDigits(cell))

CompareByDateUnsettled(a, b, k) ==
    IF IsIsoDate(a[k]) /\ IsIsoDate(b[k])
    THEN IF DateParse(b[k]) = DateParse(a[k])
         THEN (IF resp[1].status = 200 THEN 1 ELSE 0)
         ELSE DateParse(b[k]) - DateParse(a[k])
    ELSE 0

\* the sort comparator (a, b) => new Date(b[k]) - new Date(a[k]) as the sort
\* uses it: a cell that holds no date gives NaN, which the sort takes as 0
CompareByDate(a, b, k) ==
    IF IsIsoDate(a[k]) /\ IsIsoDate(b[k])
    THEN DateParse(b[k]) - DateParse(a[k])
    ELSE 0

\* Array.prototype.sort is stable: x is placed behind every row that the
\* comparator does not put after it
RECURSIVE InsertByDate(_, _, _)
InsertByDate(sorted, x, k) ==
    IF sorted = <<>> THEN <<x>>
    ELSE IF CompareByDate(Head(sorted), x, k) <= 0
    THEN <<Head(sorted)>> \o InsertByDate(Tail(sorted), x, k)
    ELSE <<x>> \o sorted

RECURSIVE SortByDate(_, _)
SortByDate(rows, k) ==
    IF rows = <<>> THEN <<>>
    ELSE LET front == SortByDate(SubSeq(rows, 1, Len(rows) - 1), k)
         IN  InsertByDate(front, rows[Len(rows)], k)

CustomerScansOfAll(scanData, customerId, k) == SortByDate(scanData, k)

\* the customer's scans, latest first
CustomerScans(scanData, customerId, k) ==
    SortByDate(SelectSeq(scanData, LAMBDA row : row.c1 = customerId), k)

FindFirstOrHead(rows, cell, value) ==
    LET found == SelectSeq(rows, LAMBDA row : row[cell] = value)
    IN  IF found = <<>> THEN (IF rows = <<>> THEN <<>> ELSE <<rows[1]>>)
        ELSE <<found[1]>>

\* Array.prototype.find(row => row[cell] === value) as a nullable: the first
\* row whose cell equals the value
FindFirst(rows, cell, value) ==
    LET found == SelectSeq(rows, LAMBDA row : row[cell] = value)
    IN  IF found = <<>> THEN <<>> ELSE <<found[1]>>

Reverse(s) == [i \in 1..Len(s) |-> s[Len(s) + 1 - i]]

Slice(s, n) == SubSeq(s, 1, IF Len(s) < n THEN Len(s) ELSE n)

HistoricalNewestFirst(customerScans, k) ==
    LET last == Slice(customerScans, HISTORY_LENGTH)
    IN  [i \in 1..Len(last) |->
            [date |-> last[i][k], score |-> ParseIntOrZero(last[i].c4)]]

\* customerScans.slice(0, 10).reverse().map(..)
Historical(customerScans, k) ==
    LET last == Reverse(Slice(customerScans, HISTORY_LENGTH))
    IN  [i \in 1..Len(last) |->
            [date |-> last[i][k], score |-> ParseIntOrZero(last[i].c4)]]

\* String(cell || '').trim() on both sides
MatchesScanLoosely(cell, scanId) == Trim(cell) = Trim(scanId)

MatchesScan(cell, scanId) == cell = scanId

\* the violations of the latest scan as the payload carries them
ScanViolations(violationData, customerScans, normalized) ==
    IF customerScans = <<>> THEN <<>>
    ELSE LET latestScanId == customerScans[1].c0
             found == SelectSeq(violationData,
                         LAMBDA row : IF normalized
                                      THEN MatchesScanLoosely(row.c1, latestScanId)
                                      ELSE MatchesScan(row.c1, latestScanId))
         IN  [i \in 1..Len(found) |-> [rule_id |-> found[i].c4]]

\* the fields of the 200 payload drawn from the scans; a null field is the
\* empty sequence, an object the sequence of that one record
DashboardFields(customer, customerScans, violationData, k, normalized) ==
    LET sorted == customerScans
        latestScan == sorted[1]
    IN  [score        |-> IF sorted = <<>> THEN 0 ELSE ParseIntOrZero(latestScan.c4),
         lastScan     |-> IF sorted = <<>> THEN customer.c7 ELSE latestScan[k],
         violations   |-> ScanViolations(violationData, sorted, normalized),
         historical   |-> Historical(sorted, k),
         scan_summary |-> IF sorted = <<>> THEN <<>>
                          ELSE << [scan_id |-> latestScan.c0,
                                   pages_scanned |-> ParseIntOrZero(latestScan.c3),
                                   minor_count |-> ParseIntOrZero(latestScan.c9)] >>]

(***************************************************************************)
(* The Customers sheet.  A data row is a record of the cells the handlers  *)
(* read, named by column index: c0 customer_id (A), c5 website_url (F),    *)
(* c6 plan (G), c11 column L, c13 column N, c15 column P.                  *)
(***************************************************************************)
MAX_WEBSITES == 5

NoRow == 0

\* customerData.findIndex(row => row[13] === token), as a data row index
\* (NoRow for -1)
FindIndexByN(rows, token) ==
    IF \E i \in 1..Len(rows) : rows[i].c13 = token
    THEN CHOOSE i \in 1..Len(rows) :
             /\ rows[i].c13 = token
             /\ \A j \in 1..(i - 1) : rows[j].c13 # token
    ELSE NoRow

\* customerData.find(row => row[15] === token)
FindIndexByP(rows, token) ==
    IF \E i \in 1..Len(rows) : rows[i].c15 = token
    THEN CHOOSE i \in 1..Len(rows) :
             /\ rows[i].c15 = token
             /\ \A j \in 1..(i - 1) : rows[j].c15 # token
    ELSE NoRow

NoLocal == [customerIndex |-> NoRow, currentUrls |-> <<>>, updatedUrls |-> <<>>]

NoResp == [status |-> 0, error |-> "", websites |-> <<>>]

NoReq == [kind |-> "none", token |-> "", url |-> <<>>]

ErrorResp(status, error) == [status |-> status, error |-> error, websites |-> <<>>]

PlanAllowsAddAnyPlan(customer) == TRUE

\* add-website: the plan check passes
PlanAllowsAdd(customer) == customer.c6 = "professional"

AtLimitAboveFive(currentUrls) == Len(currentUrls) > MAX_WEBSITES

\* add-website: the limit check rejects
AtLimit(currentUrls) == Len(currentUrls) >= MAX_WEBSITES

NormalizeUrlUntrimmed(new_url) == new_url

\* add-website: const normalizedUrl = new_url.trim()
NormalizeUrl(new_url) == Trim(new_url)

\* add-website, from the body check to the URL-format check: the error
\* response, or NoResp when every check passes and the write is next
AddWebsiteChecks(rows, token, new_url) ==
    IF token = "" \/ new_url = <<>>
    THEN ErrorResp(400, "Token and new_url required")
    ELSE LET customerIndex == FindIndexByN(rows, token) IN
         IF customerIndex = NoRow
         THEN ErrorResp(404, "Customer not found")
         ELSE LET customer == rows[customerIndex]
                  currentUrls == ParseUrls(customer.c5)
                  normalizedUrl == NormalizeUrl(new_url)
              IN  IF ~PlanAllowsAdd(customer)
                  THEN ErrorResp(403, "Professional plan required")
                  ELSE IF AtLimit(currentUrls)
                  THEN ErrorResp(400, "Maximum 5 websites allowed")
                  ELSE IF Includes(currentUrls, normalizedUrl)
                  THEN ErrorResp(400, "Website already exists")
                  ELSE IF ~UrlParses(normalizedUrl)
                  THEN ErrorResp(400, "Invalid URL format")
                  ELSE NoResp

\* add-website: the locals at the point of the response or of the write
AddWebsiteLocals(rows, token, new_url) ==
    LET customerIndex == IF token = "" \/ new_url = <<>> THEN NoRow
                         ELSE FindIndexByN(rows, token)
        currentUrls == IF customerIndex = NoRow THEN <<>>
                       ELSE ParseUrls(rows[customerIndex].c5)
    IN  [customerIndex |-> customerIndex,
         currentUrls |-> currentUrls,
         updatedUrls |-> Join(Append(currentUrls, NormalizeUrl(new_url)))]

\* add-website up to its Row-Store write: the request is read, the Customers
\* sheet is fetched and the checks run; a failed check answers at once
AddWebsiteRead(p, token, new_url) ==
    /\ pc[p] # "write"
    /\ LET r == AddWebsiteChecks(customers, token, new_url) IN
         /\ pc' = [pc EXCEPT ![p] = IF r = NoResp THEN "write" ELSE "done"]
         /\ resp' = [resp EXCEPT ![p] = r]
         /\ local' = [local EXCEPT ![p] =
                         IF r = NoResp
                         THEN AddWebsiteLocals(customers, token, new_url) ELSE NoLocal]
    /\ req' = [req EXCEPT ![p] = [kind |-> "add", token |-> token, url |-> new_url]]
    /\ UNCHANGED <<scans, violations, customers, subscriptions, now, issuedAt>>

UpdateFOfFirstRow(rows, customerIndex, value) ==
    [rows EXCEPT ![1].c5 = value]

\* sheets.spreadsheets.values.update of Customers!F<row>
UpdateF(rows, customerIndex, value) ==
    [rows EXCEPT ![customerIndex].c5 = value]

\* the write recomputed from the cell as it is at the time of the write
AddWebsiteWriteFresh(p) ==
    /\ pc[p] = "write"
    /\ req[p].kind = "add"
    /\ customers' = UpdateF(customers, local[p].customerIndex,
                            Join(Append(ParseUrls(customers[local[p].customerIndex].c5),
                                        NormalizeUrl(req[p].url))))
    /\ resp' = [resp EXCEPT ![p] =
                   [status |-> 200, error |-> "",
                    websites |-> Append(ParseUrls(customers[local[p].customerIndex].c5),
                                        NormalizeUrl(req[p].url))]]
    /\ pc' = [pc EXCEPT ![p] = "done"]
    /\ local' = [local EXCEPT ![p] = NoLocal]
    /\ UNCHANGED <<scans, violations, subscriptions, now, issuedAt, req>>

\* add-website from its Row-Store write to the 200 response
AddWebsiteWrite(p) ==
    /\ pc[p] = "write"
    /\ req[p].kind = "add"
    /\ customers' = UpdateF(customers, local[p].customerIndex, local[p].updatedUrls)
    /\ resp' = [resp EXCEPT ![p] =
                   [status |-> 200, error |-> "",
                    websites |-> Append(local[p].currentUrls, NormalizeUrl(req[p].url))]]
    /\ pc' = [pc EXCEPT ![p] = "done"]
    /\ local' = [local EXCEPT ![p] = NoLocal]
    /\ UNCHANGED <<scans, violations, subscriptions, now, issuedAt, req>>

RemovesLastNever(updatedUrls) == FALSE

\* remove-website: the removal would leave no website
RemovesLast(updatedUrls) == Len(updatedUrls) = 0

\* remove-website, from the body check to the last-website check: the error
\* response, or NoResp when every check passes and the write is next
RemoveWebsiteChecks(rows, token, remove_url) ==
    IF token = "" \/ remove_url = <<>>
    THEN ErrorResp(400, "Token and remove_url required")
    ELSE LET customerIndex == FindIndexByN(rows, token) IN
         IF customerIndex = NoRow
         THEN ErrorResp(404, "Customer not found")
         ELSE LET currentUrls == ParseUrls(rows[customerIndex].c5)
                  Other(url) == url # Trim(remove_url)
                  updatedUrls == SelectSeq(currentUrls, Other)
              IN  IF Len(updatedUrls) = Len(currentUrls)
                  THEN ErrorResp(404, "Website not found")
                  ELSE IF RemovesLast(updatedUrls)
                  THEN ErrorResp(400, "Cannot remove last website")
                  ELSE NoResp

\* remove-website: the locals at the point of the response or of the write
RemoveWebsiteLocals(rows, token, remove_url) ==
    LET customerIndex == IF token = "" \/ remove_url = <<>> THEN NoRow
                         ELSE FindIndexByN(rows, token)
        currentUrls == IF customerIndex = NoRow THEN <<>>
                       ELSE ParseUrls(rows[customerIndex].c5)
        Other(url) == url # Trim(remove_url)
    IN  [customerIndex |-> customerIndex,
         currentUrls |-> currentUrls,
         updatedUrls |-> SelectSeq(currentUrls, Other)]

\* remove-website up to its Row-Store write
RemoveWebsiteRead(p, token, remove_url) ==
    /\ pc[p] # "write"
    /\ LET r == RemoveWebsiteChecks(customers, token, remove_url) IN
         /\ pc' = [pc EXCEPT ![p] = IF r = NoResp THEN "write" ELSE "done"]
         /\ resp' = [resp EXCEPT ![p] = r]
         /\ local' = [local EXCEPT ![p] =
                         IF r = NoResp
                         THEN RemoveWebsiteLocals(customers, token, remove_url)
                         ELSE NoLocal]
    /\ req' = [req EXCEPT ![p] = [kind |-> "remove", token |-> token, url |-> remove_url]]
    /\ UNCHANGED <<scans, violations, customers, subscriptions, now, issuedAt>>

\* remove-website from its Row-Store write to the 200 response
RemoveWebsiteWrite(p) ==
    /\ pc[p] = "write"
    /\ req[p].kind = "remove"
    /\ customers' = UpdateF(customers, local[p].customerIndex,
                            Join(local[p].updatedUrls))
    /\ resp' = [resp EXCEPT ![p] =
                   [status |-> 200, error |-> "", websites |-> local[p].updatedUrls]]
    /\ pc' = [pc EXCEPT ![p] = "done"]
    /\ local' = [local EXCEPT ![p] = NoLocal]
    /\ UNCHANGED <<scans, violations, subscriptions, now, issuedAt, req>>

\* professional-data up to the parse of the website list: the error
\* response, or the 200 response with the customer's websites.  The scan,
\* violation and subscription joins that follow read sheets and write none.
\* the entry of one website of a professional customer: the scans of that
\* customer and URL sorted on cell 14 (scan_date of the A:W range), the
\* violations of the latest by strict equality of the scan identifiers
WebsiteData(url, customerId, scanData, violationData) ==
    LET siteScans == SortByDate(SelectSeq(scanData,
                         LAMBDA scan : scan.c1 = customerId /\ scan.c4 = url), "c14")
        last10 == Reverse(Slice(siteScans, HISTORY_LENGTH))
    IN  [website_url   |-> url,
         current_score |-> IF siteScans = <<>> THEN 0
                           ELSE ParseIntOrZero(siteScans[1].c8),
         last_scan_date |-> IF siteScans = <<>> THEN <<>> ELSE siteScans[1].c14,
         latest_scan   |-> IF siteScans = <<>> THEN <<>>
                           ELSE << [scan_id |-> siteScans[1].c0,
                                    compliance_score |-> ParseIntOrZero(siteScans[1].c8),
                                    scan_date |-> siteScans[1].c14] >>,
         violations    |-> ScanViolations(violationData, siteScans, FALSE),
         historical    |-> [i \in 1..Len(last10) |->
                              [date |-> last10[i].c14,
                               score |-> ParseIntOrZero(last10[i].c8)]]]

ProfessionalDataResp(rows, subs, scanData, violationData, token) ==
    IF token = ""
    THEN ErrorResp(400, "Token required")
    ELSE LET customerIndex == FindIndexByP(rows, token) IN
         IF customerIndex = NoRow
         THEN ErrorResp(404, "Customer not found")
         ELSE IF rows[customerIndex].c6 # "professional"
         THEN ErrorResp(403, "Professional plan required")
         ELSE LET websiteUrls == ParseUrls(rows[customerIndex].c5)
                  customerId == rows[customerIndex].c0
              IN  [status |-> 200, error |-> "",
                   websites |-> [i \in 1..Len(websiteUrls) |->
                                   WebsiteData(websiteUrls[i], customerId,
                                               scanData, violationData)],
                   subscription |-> FindFirst(subs, "c0", customerId)]

ProfessionalData(p, token) ==
    /\ pc[p] # "write"
    /\ resp' = [resp EXCEPT ![p] = ProfessionalDataResp(customers, subscriptions, scans, violations, token)]
    /\ req' = [req EXCEPT ![p] = [kind |-> "professional-data", token |-> token, url |-> <<>>]]
    /\ local' = [local EXCEPT ![p] = NoLocal]
    /\ pc' = [pc EXCEPT ![p] = "done"]
    /\ UNCHANGED <<scans, violations, customers, subscriptions, now, issuedAt>>

(***************************************************************************)
(* The website-list specification: add-website, remove-website and         *)
(* professional-data requests served concurrently over two customers.      *)
(***************************************************************************)
Fillers == <<"https://w/", "https://x/", "https://y/", "https://z/", "https://v/">>

\* The stored list of a customer at the start: 1..5 distinct URLs
InitCell(n) == Join([i \in 1..n |-> <<Fillers[i]>>])

CustomerRow(id, plan, token, session, cell) ==
    [c0 |-> id, c5 |-> cell, c6 |-> plan, c7 |-> <<>>, c11 |-> token,
     c13 |-> token, c15 |-> session]

\* Racing requests: add one of two plain URLs or a URL whose path holds a
\* comma, remove the first stored URL
RaceAddUrls ==
    { <<"https://a/">>, <<"https://b/">>, <<"https://a/", ",", "https://b/">> }

RaceRemoveUrls == { <<"https://w/">> }

RaceTokens == {"tokA", "tokB"}

NoSubscriptions == <<>>

InitStore(n, m) ==
    /\ customers = << CustomerRow("CUST001", "professional", "tokA", "sessA", InitCell(n)),
                      CustomerRow("CUST002", "free", "tokB", "sessB", InitCell(m)) >>
    /\ subscriptions = NoSubscriptions
    /\ scans = <<>>
    /\ violations = <<>>
    /\ now = 0
    /\ issuedAt = [i \in 1..2 |-> 0]
    /\ pc = [p \in Procs |-> "idle"]
    /\ req = [p \in Procs |-> NoReq]
    /\ local = [p \in Procs |-> NoLocal]
    /\ resp = [p \in Procs |-> NoResp]

Init == \E n \in {2, 4} : InitStore(n, 2)

Next ==
    \/ \E p \in Procs, token \in RaceTokens, url \in RaceAddUrls :
          AddWebsiteRead(p, token, url)
    \/ \E p \in Procs : AddWebsiteWrite(p)
    \/ \E p \in Procs, token \in RaceTokens, url \in RaceRemoveUrls :
          RemoveWebsiteRead(p, token, url)
    \/ \E p \in Procs : RemoveWebsiteWrite(p)

Spec == Init /\ [][Next]_vars

(***************************************************************************)
(* The same handlers and professional-data serving one request at a time,  *)
(* over every request body of the input sets and every initial list        *)
(* length.                                                                 *)
(***************************************************************************)
BearerTokens == {"", "tokA", "tokB", "nope"}

SessionTokens == {"", "sessA", "sessB", "nope"}

\* Request URLs: a plain one, the same with blanks around it, one whose path
\* holds a comma, one without a scheme, a blank one, an empty one and one
\* of the URLs stored at the start
InputUrls ==
    { <<"https://a/">>, <<" ", "https://a/", " ">>,
      <<"https://a/", ",", "https://b/">>, <<"b.example">>, <<" ">>, <<>>,
      <<"https://w/">> }

InitSeq == \E n \in {1, 4, MAX_WEBSITES}, m \in {1, MAX_WEBSITES} : InitStore(n, m)

NextSeq ==
    \/ \E token \in BearerTokens, url \in InputUrls : AddWebsiteRead(1, token, url)
    \/ AddWebsiteWrite(1)
    \/ \E token \in BearerTokens, url \in InputUrls : RemoveWebsiteRead(1, token, url)
    \/ RemoveWebsiteWrite(1)
    \/ \E token \in SessionTokens : ProfessionalData(1, token)

SpecSeq == InitSeq /\ [][NextSeq]_vars

(***************************************************************************)
(* Signed session tokens.  A token string is the sequence of its           *)
(* dot-separated segments: header, claims and signature; the signature     *)
(* segment of a well-signed token is the keyed hash of the first two.      *)
(* The codec and the session authenticator are the validation service that *)
(* validate-session calls; they follow sections 4.1 and 4.2 of the         *)
(* specification.                                                          *)
(***************************************************************************)
TOKEN_LIFETIME == 3600

MaxTicks == 4

Tick == TOKEN_LIFETIME \div 2

MaxNow == MaxTicks * Tick

Secret == "jwt_secret"

JwtHeader == [alg |-> "HS256", typ |-> "JWT"]

\* HMAC-SHA256 of msg under key, base64url
Hmac(msg, key) == [msg |-> msg, key |-> key]

SessionClaims(cid, plan, iat) ==
    [customer_id |-> cid, email |-> <<cid, "@example.com">>, plan |-> plan,
     iat |-> iat, exp |-> iat + TOKEN_LIFETIME]

\* header.payload.signature
SignToken(claims, key) == <<JwtHeader, claims, Hmac(<<JwtHeader, claims>>, key)>>

\* verify_and_decode: the claims, or the codec's failure
VerifyAndDecode(token, secret) ==
    IF Len(token) # 3
    THEN [failure |-> "MalformedToken"]
    ELSE IF token[3] # Hmac(<<token[1], token[2]>>, secret)
    THEN [failure |-> "InvalidSignature"]
    ELSE [failure |-> "", claims |-> token[2]]

ExpiredNever(claims, t) == FALSE

\* step 3: the expiry claim against the current time
Expired(claims, t) == claims.exp < t

\* customers.find(row => row[0] === id), as a data row index
FindIndexByA(rows, id) ==
    IF \E i \in 1..Len(rows) : rows[i].c0 = id
    THEN CHOOSE i \in 1..Len(rows) :
             /\ rows[i].c0 = id
             /\ \A j \in 1..(i - 1) : rows[j].c0 # id
    ELSE NoRow

\* authenticate(token): the failure, or "" and the identity from the claims
Authenticate(token, secretAvailable, rows, t) ==
    IF ~secretAvailable
    THEN [failure |-> "SecretUnavailable"]
    ELSE LET decoded == VerifyAndDecode(token, Secret) IN
         IF decoded.failure # ""
         THEN decoded
         ELSE IF "exp" \notin DOMAIN decoded.claims
         THEN [failure |-> "Malformed"]
         ELSE IF Expired(decoded.claims, t)
         THEN [failure |-> "Expired"]
         ELSE LET i == FindIndexByA(rows, decoded.claims.customer_id) IN
              IF i = NoRow
              THEN [failure |-> "CustomerNotFound"]
              ELSE IF rows[i].c15 # token
              THEN [failure |-> "Revoked"]
              ELSE decoded

\* the validation service's HTTP answer: a failure comes as a non-2xx
\* response or, when soft, as a 2xx response with valid: false
RemoteValidate(token, secretAvailable, soft, rows, t) ==
    LET a == Authenticate(token, secretAvailable, rows, t) IN
        IF a.failure # ""
        THEN [ok |-> soft, valid |-> FALSE, error |-> a.failure,
              customer_id |-> "", email |-> <<>>, plan |-> ""]
        ELSE [ok |-> TRUE, valid |-> TRUE, error |-> "",
              customer_id |-> a.claims.customer_id, email |-> a.claims.email,
              plan |-> a.claims.plan]

SessionError(status, error) ==
    [status |-> status, error |-> error, valid |-> "false",
     customer_id |-> "", email |-> <<>>, plan |-> ""]

ValidateSessionRespTrusting(session, reachable, result) ==
    IF session = <<>>
    THEN [status |-> 400, error |-> "Session token required", valid |-> "absent",
          customer_id |-> "", email |-> <<>>, plan |-> ""]
    ELSE IF ~reachable
    THEN SessionError(500, "Session validation failed")
    ELSE IF ~result.ok
    THEN SessionError(401, IF result.error # "" THEN result.error
                           ELSE "Invalid or expired session")
    ELSE [status |-> 200, error |-> "", valid |-> "true",
          customer_id |-> result.customer_id, email |-> result.email,
          plan |-> result.plan]

\* validate-session: the response, given the validation service's answer
\* (fetch throws when the service is not reachable)
ValidateSessionResp(session, reachable, result) ==
    IF session = <<>>
    THEN [status |-> 400, error |-> "Session token required", valid |-> "absent",
          customer_id |-> "", email |-> <<>>, plan |-> ""]
    ELSE IF ~reachable
    THEN SessionError(500, "Session validation failed")
    ELSE IF ~result.ok
    THEN SessionError(401, IF result.error # "" THEN result.error
                           ELSE "Invalid or expired session")
    ELSE IF ~result.valid
    THEN SessionError(401, IF result.error # "" THEN result.error
                           ELSE "Session validation failed")
    ELSE [status |-> 200, error |-> "", valid |-> "true",
          customer_id |-> result.customer_id, email |-> result.email,
          plan |-> result.plan]

ValidateSession(p, session, reachable, secretAvailable, soft) ==
    /\ pc[p] # "write"
    /\ resp' = [resp EXCEPT ![p] =
                   ValidateSessionResp(session, reachable,
                       RemoteValidate(session, secretAvailable, soft, customers, now))]
    /\ req' = [req EXCEPT ![p] =
                  [kind |-> "validate-session", token |-> session, url |-> <<>>,
                   reachable |-> reachable, secretAvailable |-> secretAvailable]]
    /\ pc' = [pc EXCEPT ![p] = "done"]
    /\ UNCHANGED <<scans, violations, customers, subscriptions, now, issuedAt, local>>

\* customer-data up to the customer lookup: the error response, or the 200
\* response for the customer found.  The subscription, scan and violation
\* joins that follow read sheets and write none.
\* the 200 response of customer-data for the Customers row found
CustomerDataPayload(customer, subs, scanData, violationData, k, normalized) ==
    LET f == DashboardFields(customer, CustomerScans(scanData, customer.c0, k),
                             violationData, k, normalized)
    IN  [status |-> 200, customer_id |-> customer.c0, error |-> "",
         score |-> f.score, lastScan |-> f.lastScan, violations |-> f.violations,
         historical |-> f.historical, scan_summary |-> f.scan_summary,
         subscription |-> FindFirst(subs, "c0", customer.c0)]

\* customer-data (src/api/customer-data.js, first handler): lookup by
\* bearer token or by identifier
CustomerDataResp(rows, subs, scanData, violationData, token, customerId) ==
    IF token = "" /\ customerId = ""
    THEN [status |-> 400, customer_id |-> "",
          error |-> "Authentication required. Use ?token=YOUR_TOKEN or ?id=CUST001"]
    ELSE LET customer == IF token # ""
                         THEN FindFirst(rows, "c11", token)
                         ELSE FindFirst(rows, "c0", customerId)
         IN  IF customer = <<>>
             THEN [status |-> 404, customer_id |-> "",
                   error |-> IF token # "" THEN "Invalid or expired token"
                             ELSE "Customer not found"]
             ELSE CustomerDataPayload(customer[1], subs, scanData, violationData,
                                      "c10", TRUE)

CustomerData(p, token, customerId) ==
    /\ pc[p] # "write"
    /\ resp' = [resp EXCEPT ![p] =
                  CustomerDataResp(customers, subscriptions, scans, violations,
                                   token, customerId)]
    /\ req' = [req EXCEPT ![p] =
                  [kind |-> "customer-data", token |-> token, url |-> <<>>,
                   id |-> customerId]]
    /\ pc' = [pc EXCEPT ![p] = "done"]
    /\ UNCHANGED <<scans, violations, customers, subscriptions, now, issuedAt, local>>

\* customer-data (src/api/customer-data.js, second handler): lookup by
\* identifier only; scans sorted on cell 9, violations matched by strict
\* equality, no subscription in the payload
CustomerDataByIdResp(rows, scanData, violationData, customerId) ==
    IF customerId = ""
    THEN [status |-> 400, customer_id |-> "",
          error |-> "customer_id required. Use ?id=CUST001"]
    ELSE LET customer == FindFirst(rows, "c0", customerId)
         IN  IF customer = <<>>
             THEN [status |-> 404, customer_id |-> "", error |-> "Customer not found"]
             ELSE LET f == DashboardFields(customer[1],
                              CustomerScans(scanData, customerId, "c9"),
                              violationData, "c9", FALSE)
                  IN  [status |-> 200, customer_id |-> customer[1].c0, error |-> "",
                       score |-> f.score, lastScan |-> f.lastScan,
                       violations |-> f.violations, historical |-> f.historical,
                       scan_summary |-> f.scan_summary]

CustomerDataById(p, customerId) ==
    /\ pc[p] # "write"
    /\ resp' = [resp EXCEPT ![p] =
                  CustomerDataByIdResp(customers, scans, violations, customerId)]
    /\ req' = [req EXCEPT ![p] =
                  [kind |-> "customer-data-by-id", token |-> "", url |-> <<>>,
                   id |-> customerId]]
    /\ pc' = [pc EXCEPT ![p] = "done"]
    /\ UNCHANGED <<scans, violations, customers, subscriptions, now, issuedAt, local>>

\* customer-data (second handler of src/api/validate-session.js): lookup
\* by bearer token only, answered 401 when missing or unknown
CustomerDataByTokenResp(rows, scanData, violationData, token) ==
    IF token = ""
    THEN [status |-> 401, customer_id |-> "",
          error |-> "Access token required. Please use your unique dashboard link."]
    ELSE LET customer == FindFirst(rows, "c11", token)
         IN  IF customer = <<>>
             THEN [status |-> 401, customer_id |-> "",
                   error |-> "Invalid access token. Please check your dashboard link."]
             ELSE LET f == DashboardFields(customer[1],
                              CustomerScans(scanData, customer[1].c0, "c9"),
                              violationData, "c9", FALSE)
                  IN  [status |-> 200, customer_id |-> customer[1].c0, error |-> "",
                       score |-> f.score, lastScan |-> f.lastScan,
                       violations |-> f.violations, historical |-> f.historical,
                       scan_summary |-> f.scan_summary]

CustomerDataByToken(p, token) ==
    /\ pc[p] # "write"
    /\ resp' = [resp EXCEPT ![p] =
                  CustomerDataByTokenResp(customers, scans, violations, token)]
    /\ req' = [req EXCEPT ![p] =
                  [kind |-> "customer-data-by-token", token |-> token, url |-> <<>>,
                   id |-> ""]]
    /\ pc' = [pc EXCEPT ![p] = "done"]
    /\ UNCHANGED <<scans, violations, customers, subscriptions, now, issuedAt, local>>

\* a login, served outside these handlers: a session token is signed for
\* the customer and written over the one on file
Login(i) ==
    /\ customers' = [customers EXCEPT ![i].c15 =
                        SignToken(SessionClaims(customers[i].c0, customers[i].c6, now),
                                  Secret)]
    /\ issuedAt' = [issuedAt EXCEPT ![i] = now]
    /\ UNCHANGED <<scans, violations, subscriptions, now, pc, req, local, resp>>

\* time passes
AdvanceClock ==
    /\ now + Tick <= MaxNow
    /\ now' = now + Tick
    /\ UNCHANGED <<scans, violations, customers, subscriptions, issuedAt, pc, req, local, resp>>

(***************************************************************************)
(* The authentication specification: logins, the clock, validate-session   *)
(* and customer-data requests, one request at a time.                      *)
(***************************************************************************)
IssueTimes == {t \in 0..MaxNow : t % Tick = 0}

ClaimedIds == {"CUST001", "CUST002", "CUST999"}

\* Session strings a client may present: tokens signed with the secret or
\* with another key for each identifier and issue time, a token whose claims
\* carry no expiry, a string of one segment, and no session at all
InputSessions ==
    { SignToken(SessionClaims(c, "professional", t), k) :
         c \in ClaimedIds, t \in IssueTimes, k \in {Secret, "guess"} }
    \cup { SignToken(SessionClaims(c, "free", t), Secret) :
         c \in {"CUST002"}, t \in IssueTimes }
    \cup { SignToken([customer_id |-> "CUST001", email |-> <<"CUST001", "@example.com">>,
                      plan |-> "professional", iat |-> 0], Secret),
           <<"garbage">>, <<>> }

InitAuth ==
    /\ customers =
          << CustomerRow("CUST001", "professional", "tokA",
                         SignToken(SessionClaims("CUST001", "professional", 0), Secret),
                         InitCell(2)),
             CustomerRow("CUST002", "free", "tokB",
                         SignToken(SessionClaims("CUST002", "free", 0), Secret),
                         InitCell(1)) >>
    /\ subscriptions = NoSubscriptions
    /\ scans = <<>>
    /\ violations = <<>>
    /\ now = 0
    /\ issuedAt = [i \in 1..2 |-> 0]
    /\ pc = [p \in Procs |-> "idle"]
    /\ req = [p \in Procs |-> NoReq]
    /\ local = [p \in Procs |-> NoLocal]
    /\ resp = [p \in Procs |-> NoResp]

NextAuth ==
    \/ AdvanceClock
    \/ \E i \in 1..Len(customers) : Login(i)
    \/ \E session \in InputSessions, reachable \in BOOLEAN,
          secretAvailable \in BOOLEAN, soft \in BOOLEAN :
          ValidateSession(1, session, reachable, secretAvailable, soft)
    \/ \E token \in BearerTokens, id \in ClaimedIds \cup {""} :
          CustomerData(1, token, id)

SpecAuth == InitAuth /\ [][NextAuth]_vars

(***************************************************************************)
(* Subscription cancellation (cancel-subscription)                         *)
(***************************************************************************)
\* a Subscriptions data row: customer_id, status, current_period_end,
\* cancelled_date
SubscriptionRow(id, status, periodEnd, cancelled) ==
    [c0 |-> id, c4 |-> status, c6 |-> periodEnd, c9 |-> cancelled]

FindIndexBySub(rows, customer_id) ==
    IF \E i \in 1..Len(rows) : rows[i].c0 = customer_id
    THEN CHOOSE i \in 1..Len(rows) :
            /\ rows[i].c0 = customer_id
            /\ \A j \in 1..(i - 1) : rows[j].c0 # customer_id
    ELSE NoRow

\* the steps of cancel-subscription up to the lookup: an error response, or
\* NoResp when the handler goes on to the update
CancelSubscriptionChecks(rows, customer_id, current_period_end) ==
    IF customer_id = "" \/ current_period_end = <<>>
    THEN ErrorResp(400, "Missing required fields: customer_id and current_period_end")
    ELSE IF ~IsIsoDate(current_period_end)
    THEN ErrorResp(500, "Failed to cancel subscription")
    ELSE IF FindIndexBySub(rows, customer_id) = NoRow
    THEN ErrorResp(404, "Subscription not found for this customer")
    ELSE NoResp

CancelSubscriptionRead(p, customer_id, current_period_end) ==
    LET r == CancelSubscriptionChecks(subscriptions, customer_id, current_period_end)
    IN  /\ pc[p] # "write"
        /\ req' = [req EXCEPT ![p] =
                      [kind |-> "cancel-subscription", customer_id |-> customer_id,
                       current_period_end |-> current_period_end]]
        /\ IF r = NoResp
           THEN /\ pc' = [pc EXCEPT ![p] = "write"]
                /\ local' = [local EXCEPT ![p] =
                      [rowIndex |-> FindIndexBySub(subscriptions, customer_id),
                       formattedCancellationDate |-> CancellationDate(current_period_end)]]
                /\ resp' = [resp EXCEPT ![p] = NoResp]
           ELSE /\ pc' = [pc EXCEPT ![p] = "done"]
                /\ local' = [local EXCEPT ![p] = NoLocal]
                /\ resp' = [resp EXCEPT ![p] = r]
        /\ UNCHANGED <<scans, violations, customers, subscriptions, now, issuedAt>>

\* the batch update of columns E and J of the row found, and the answer
CancelSubscriptionWrite(p) ==
    /\ pc[p] = "write"
    /\ req[p].kind = "cancel-subscription"
    /\ subscriptions' =
          [subscriptions EXCEPT
              ![local[p].rowIndex].c4 = "cancelled",
              ![local[p].rowIndex].c9 = local[p].formattedCancellationDate]
    /\ resp' = [resp EXCEPT ![p] =
                  [status |-> 200, error |-> "",
                   cancellation_date |-> local[p].formattedCancellationDate,
                   subscription_status |-> "cancelled"]]
    /\ pc' = [pc EXCEPT ![p] = "done"]
    /\ local' = [local EXCEPT ![p] = NoLocal]
    /\ UNCHANGED <<scans, violations, customers, now, issuedAt, req>>

(***************************************************************************)
(* The cancellation specification: one client cancelling subscriptions     *)
(* whose period ends on any day of the years FirstYear..LastYear.          *)
(***************************************************************************)
FirstYear == 2024

LastYear == 2025

CalendarDays ==
    { ymd \in (FirstYear..LastYear) \X (1..12) \X (1..31) :
         ymd[3] <= DaysInMonth(ymd[1], ymd[2]) }

TwoDigits(n) == <<DigitChars[(n \div 10) + 1], DigitChars[(n % 10) + 1]>>

\* the string YYYY-MM-DD of a calendar day
DateString(ymd) ==
    TwoDigits(ymd[1] \div 100) \o TwoDigits(ymd[1] % 100) \o <<"-">>
    \o TwoDigits(ymd[2]) \o <<"-">> \o TwoDigits(ymd[3])

SubscriberIds == {"", "CUST001", "CUST002", "CUST999"}

InitCancel ==
    /\ customers = <<>>
    /\ \E d \in CalendarDays :
          subscriptions =
             << SubscriptionRow("CUST001", "active", DateString(d), <<>>),
                SubscriptionRow("CUST002", "active", DateString(<<FirstYear, 3, 15>>), <<>>) >>
    /\ scans = <<>>
    /\ violations = <<>>
    /\ now = 0
    /\ issuedAt = <<>>
    /\ pc = [p \in Procs |-> "idle"]
    /\ req = [p \in Procs |-> NoReq]
    /\ local = [p \in Procs |-> NoLocal]
    /\ resp = [p \in Procs |-> NoResp]

\* the period ends a client sends: those on file, none, or free text
PeriodEnds ==
    { subscriptions[i].c6 : i \in 1..Len(subscriptions) } \cup { <<>>, <<"soon">> }

NextCancel ==
    \/ \E id \in SubscriberIds, e \in PeriodEnds : CancelSubscriptionRead(1, id, e)
    \/ CancelSubscriptionWrite(1)

SpecCancel == InitCancel /\ [][NextCancel]_vars

(***************************************************************************)
(* The aggregation specification: one client reading the dashboard of a    *)
(* customer with up to MaxScans scans through each of the aggregating         *)
(* handlers.  The Scan Summary sheet is laid out either as the README      *)
(* documents it and customer-data reads it ("A:M": scan_date in cell 10,   *)
(* compliance_score in cell 4) or as professional-data reads it ("A:W":    *)
(* website_url in cell 4, compliance_score in cell 8, scan_date in cell    *)
(* 14).                                                                    *)
(***************************************************************************)
MaxScans == 11

\* none, a few, and just below and above the length of the series
ScanCounts == (0..3) \cup ((MaxScans - 2)..MaxScans)

Layouts == {"A:M", "A:W"}

NumberString(n) == IF n < 100 THEN TwoDigits(n) ELSE PadStart(n, 3)

ScanRow(layout, scanId, customerId, url, score, date) ==
    IF layout = "A:M"
    THEN [c0 |-> scanId, c1 |-> customerId, c2 |-> url, c3 |-> <<"5">>,
          c4 |-> NumberString(score), c8 |-> <<"0">>, c9 |-> <<"0">>,
          c10 |-> date, c14 |-> <<"true">>]
    ELSE [c0 |-> scanId, c1 |-> customerId, c2 |-> <<>>, c3 |-> <<>>,
          c4 |-> url, c8 |-> NumberString(score), c9 |-> <<"0">>,
          c10 |-> <<"0">>, c14 |-> date]

ViolationRow(id, scanId, rule) == [c0 |-> id, c1 |-> scanId, c4 |-> rule]

\* how the scan dates run down the sheet: row k of n holds the date of rank
\* Rank(pattern, k, n), a later date for a higher rank
Patterns == {"ascending", "descending", "mixed", "ties"}

Rank(pattern, k, n) ==
    CASE pattern = "ascending"  -> k
      [] pattern = "descending" -> n + 1 - k
      [] pattern = "mixed"      -> (k * 5) % 13
      [] pattern = "ties"       -> (k + 1) \div 2

RankDate(rank) == DateString(<<FirstYear, 1 + (rank \div 28), 1 + (rank % 28)>>)

RankScore(rank) == 60 + 10 * (((rank - 1) % 4) + 1)

ScanId(k) == <<"S">> \o TwoDigits(k)

Padded(cell) == <<" ">> \o cell \o <<" ">>

\* the Scan Summary sheet: a scan of another customer, then the n scans of
\* CUST001 on its first website; CUST003 has no scan and no subscription
ScanSheet(layout, pattern, n, padLast) ==
    << ScanRow(layout, ScanId(0), "CUST002", <<"https://w/">>, 55, RankDate(20)) >>
    \o [k \in 1..n |->
          ScanRow(layout,
                  IF padLast /\ k = n THEN Padded(ScanId(k)) ELSE ScanId(k),
                  "CUST001", <<"https://w/">>,
                  RankScore(Rank(pattern, k, n)), RankDate(Rank(pattern, k, n)))]

\* the Violations sheet: none, or violations of the first and the last scan
\* of CUST001 with the scan identifier as written or with blanks around it
ViolationSheets(n) ==
    { <<>>,
      << ViolationRow("v1", ScanId(1), "r1"), ViolationRow("v2", ScanId(n), "r2") >>,
      << ViolationRow("v1", Padded(ScanId(1)), "r1"),
         ViolationRow("v2", Padded(ScanId(n)), "r2"),
         ViolationRow("v3", ScanId(n), "r3") >> }

InitAgg ==
    /\ customers =
          << CustomerRow("CUST001", "professional", "tokA", "sessA", InitCell(2)),
             CustomerRow("CUST002", "free", "tokB", "sessB", InitCell(1)),
             CustomerRow("CUST003", "professional", "tokC", "sessC", InitCell(1)) >>
    /\ subscriptions =
          << SubscriptionRow("CUST001", "active", DateString(<<FirstYear, 3, 15>>), <<>>) >>
    /\ \E layout \in Layouts, pattern \in Patterns, n \in ScanCounts,
          padLast \in BOOLEAN :
          /\ scans = ScanSheet(layout, pattern, n, padLast)
          /\ violations \in ViolationSheets(n)
    /\ now = 0
    /\ issuedAt = [i \in 1..3 |-> 0]
    /\ pc = [p \in Procs |-> "idle"]
    /\ req = [p \in Procs |-> NoReq]
    /\ local = [p \in Procs |-> NoLocal]
    /\ resp = [p \in Procs |-> NoResp]

\* the credentials a client presents: none, the customers', an unknown one
AggTokens == {"", "tokA", "nope"}

AggIds == {"", "CUST001", "CUST002", "CUST999"}

AggSessions == {"", "sessA", "sessB", "sessC", "nope"}

NextAgg ==
    \/ \E token \in AggTokens, id \in AggIds : CustomerData(1, token, id)
    \/ \E id \in AggIds : CustomerDataById(1, id)
    \/ \E token \in AggTokens \cup {"tokB"} : CustomerDataByToken(1, token)
    \/ \E token \in AggSessions : ProfessionalData(1, token)

SpecAgg == InitAgg /\ [][NextAgg]_vars

(***************************************************************************)
(* The independence specification: two clients adding and removing         *)
(* websites and cancelling subscriptions of two customers, their reads and *)
(* writes interleaved.                                                     *)
(***************************************************************************)
FrameUrls == { <<"https://a/">> }

FrameIds == {"CUST001", "CUST002"}

InitFrame ==
    /\ customers =
          << CustomerRow("CUST001", "professional", "tokA", "sessA", InitCell(2)),
             CustomerRow("CUST002", "professional", "tokB", "sessB", InitCell(2)) >>
    /\ subscriptions =
          << SubscriptionRow("CUST001", "active", DateString(<<FirstYear, 3, 15>>), <<>>),
             SubscriptionRow("CUST002", "active", DateString(<<FirstYear, 12, 31>>), <<>>) >>
    /\ scans = <<>>
    /\ violations = <<>>
    /\ now = 0
    /\ issuedAt = [i \in 1..2 |-> 0]
    /\ pc = [p \in Procs |-> "idle"]
    /\ req = [p \in Procs |-> NoReq]
    /\ local = [p \in Procs |-> NoLocal]
    /\ resp = [p \in Procs |-> NoResp]

NextFrame ==
    \/ \E p \in Procs, token \in RaceTokens, url \in FrameUrls :
          AddWebsiteRead(p, token, url)
    \/ \E p \in Procs : AddWebsiteWrite(p)
    \/ \E p \in Procs, token \in RaceTokens, url \in RaceRemoveUrls :
          RemoveWebsiteRead(p, token, url)
    \/ \E p \in Procs : RemoveWebsiteWrite(p)
    \/ \E p \in Procs, id \in FrameIds :
          CancelSubscriptionRead(p, id, DateString(<<FirstYear, 3, 15>>))
    \/ \E p \in Procs : CancelSubscriptionWrite(p)

SpecFrame == InitFrame /\ [][NextFrame]_vars

(***************************************************************************)
(* The method check every handler starts with: OPTIONS is answered 200     *)
(* with no body, any method but the handler's own 405.  The handler        *)
(* actions above serve the requests that pass it.                          *)
(***************************************************************************)
HandlerKinds ==
    {"add", "remove", "cancel-subscription", "validate-session", "customer-data",
     "customer-data-by-id", "customer-data-by-token", "professional-data"}

OwnMethodAlwaysPost(kind) == "POST"

\* the method a handler requires
OwnMethod(kind) ==
    IF kind \in {"add", "remove", "cancel-subscription", "validate-session"}
    THEN "POST"
    ELSE "GET"

\* res.status(200).end() and res.status(405).json({error}); NoResp when the
\* request passes the check
MethodResp(kind, method) ==
    IF method = "OPTIONS"
    THEN [status |-> 200, error |-> "", body |-> FALSE]
    ELSE IF method # OwnMethod(kind)
    THEN [status |-> 405,
          error |-> IF kind = "validate-session" THEN "Method not allowed. Use POST."
                    ELSE "Method not allowed",
          body |-> TRUE]
    ELSE NoResp

\* a request that the method check answers
MethodCheck(p, kind, method) ==
    /\ pc[p] # "write"
    /\ MethodResp(kind, method) # NoResp
    /\ req' = [req EXCEPT ![p] =
                  [kind |-> kind, method |-> method, token |-> "", url |-> <<>>]]
    /\ resp' = [resp EXCEPT ![p] = MethodResp(kind, method)]
    /\ pc' = [pc EXCEPT ![p] = "done"]
    /\ local' = [local EXCEPT ![p] = NoLocal]
    /\ UNCHANGED <<scans, violations, customers, subscriptions, now, issuedAt>>

(***************************************************************************)
(* The method specification: clients sending requests of any method to     *)
(* any handler.                                                            *)
(***************************************************************************)
Methods == {"OPTIONS", "GET", "POST", "PUT", "DELETE"}

NextMethods ==
    \E p \in Procs, kind \in HandlerKinds, method \in Methods :
        MethodCheck(p, kind, method)

SpecMethods == InitFrame /\ [][NextMethods]_vars

(***************************************************************************)
(* Row-Store failures.  Every Row-Store call of a handler is awaited       *)
(* inside the handler's try block; a call that raises takes the handler to *)
(* its catch block, which answers 500 with the handler's message and the   *)
(* message of the error raised, and returns.  A call that raised has not   *)
(* changed the sheet.                                                      *)
(***************************************************************************)
RowStoreError == "row-store call failed"

FailureStatusOk(kind) == 200

\* res.status(500) of the catch blocks
FailureStatus(kind) == 500

\* the message of the catch block of each handler
FailureError(kind) ==
    CASE kind = "add" -> "Failed to add website"
      [] kind = "remove" -> "Failed to remove website"
      [] kind = "cancel-subscription" -> "Failed to cancel subscription"
      [] kind = "professional-data" -> "Failed to fetch data"
      [] OTHER -> "Failed to fetch customer data"

\* res.status(500).json({ error, details: error.message })
FailureResp(kind) ==
    [status |-> FailureStatus(kind), error |-> FailureError(kind),
     websites |-> <<>>, details |-> RowStoreError]

\* the request passes the checks that precede the handler's first
\* Row-Store call
ReachesRowStore(r) ==
    CASE r.kind \in {"add", "remove"} -> r.token # "" /\ r.url # <<>>
      [] r.kind = "cancel-subscription" ->
            /\ r.customer_id # "" /\ r.current_period_end # <<>>
            /\ IsIsoDate(r.current_period_end)
      [] r.kind = "customer-data" -> r.token # "" \/ r.id # ""
      [] OTHER -> r.token # ""

\* a handler whose Row-Store read raises: the request is read, a
\* values.get raises, the catch block answers
ReadFails(p, r) ==
    /\ pc[p] # "write"
    /\ ReachesRowStore(r)
    /\ req' = [req EXCEPT ![p] = r]
    /\ resp' = [resp EXCEPT ![p] = FailureResp(r.kind)]
    /\ pc' = [pc EXCEPT ![p] = "done"]
    /\ local' = [local EXCEPT ![p] = NoLocal]
    /\ UNCHANGED <<scans, violations, customers, subscriptions, now, issuedAt>>

\* a mutating handler whose Row-Store write raises: the catch block answers
\* and the 200 response after the await is never reached
WriteFails(p) ==
    /\ pc[p] = "write"
    /\ resp' = [resp EXCEPT ![p] = FailureResp(req[p].kind)]
    /\ pc' = [pc EXCEPT ![p] = "done"]
    /\ local' = [local EXCEPT ![p] = NoLocal]
    /\ UNCHANGED <<scans, violations, customers, subscriptions, now, issuedAt, req>>

(***************************************************************************)
(* The failure specification: the requests of the independence             *)
(* specification and customer-data requests, each Row-Store call of which  *)
(* may raise.                                                              *)
(***************************************************************************)
FailRequests ==
    { [kind |-> "add", token |-> "tokA", url |-> <<"https://a/">>],
      [kind |-> "remove", token |-> "tokA", url |-> <<"https://w/">>],
      [kind |-> "cancel-subscription", customer_id |-> "CUST001",
       current_period_end |-> DateString(<<FirstYear, 3, 15>>)],
      [kind |-> "customer-data", token |-> "tokB", url |-> <<>>, id |-> ""],
      [kind |-> "professional-data", token |-> "sessB", url |-> <<>>] }

NextFail ==
    \/ \E p \in Procs, token \in RaceTokens, url \in FrameUrls :
          AddWebsiteRead(p, token, url)
    \/ \E p \in Procs : AddWebsiteWrite(p)
    \/ \E p \in Procs, url \in RaceRemoveUrls : RemoveWebsiteRead(p, "tokA", url)
    \/ \E p \in Procs : RemoveWebsiteWrite(p)
    \/ \E p \in Procs :
          CancelSubscriptionRead(p, "CUST001", DateString(<<FirstYear, 3, 15>>))
    \/ \E p \in Procs : CancelSubscriptionWrite(p)
    \/ \E p \in Procs : CustomerData(p, "tokB", "")
    \/ \E p \in Procs, r \in FailRequests : ReadFails(p, r)
    \/ \E p \in Procs : WriteFails(p)

SpecFail == InitFrame /\ [][NextFail]_vars

(***************************************************************************)
(* The resolution specification: one client presenting the same bearer     *)
(* tokens to customer-data, professional-data, add-website and             *)
(* remove-website.  Cells L and N of a row hold the customer's token; cell *)
(* P holds the same token or a value of its own.                           *)
(***************************************************************************)
ResolveTokens == {"tokA", "tokB", "sessA", "nope"}

ResolveUrls == { <<"https://a/">>, <<"https://w/">> }

InitResolve ==
    /\ \E same \in BOOLEAN :
          customers =
             << CustomerRow("CUST001", "professional", "tokA",
                            IF same THEN "tokA" ELSE "sessA", InitCell(2)),
                CustomerRow("CUST002", "professional", "tokB",
                            IF same THEN "tokB" ELSE "sessB", InitCell(3)) >>
    /\ subscriptions = NoSubscriptions
    /\ scans = <<>>
    /\ violations = <<>>
    /\ now = 0
    /\ issuedAt = [i \in 1..2 |-> 0]
    /\ pc = [p \in Procs |-> "idle"]
    /\ req = [p \in Procs |-> NoReq]
    /\ local = [p \in Procs |-> NoLocal]
    /\ resp = [p \in Procs |-> NoResp]

NextResolve ==
    \/ \E token \in ResolveTokens : CustomerData(1, token, "")
    \/ \E token \in ResolveTokens : ProfessionalData(1, token)
    \/ \E token \in ResolveTokens, url \in ResolveUrls : AddWebsiteRead(1, token, url)
    \/ AddWebsiteWrite(1)
    \/ \E token \in ResolveTokens, url \in ResolveUrls : RemoveWebsiteRead(1, token, url)
    \/ RemoveWebsiteWrite(1)

SpecResolve == InitResolve /\ [][NextResolve]_vars

(***************************************************************************)
(* The isolation specification: one client reading the dashboards of two   *)
(* professional customers that share a website URL, over sheets in which   *)
(* the scans and violations of the two alternate.  Every scan has its own  *)
(* identifier and score, every violation its own rule.                     *)
(***************************************************************************)
MaxIsoScans == 6

IsoCounts == {0, 1, 2, MaxIsoScans - 1, MaxIsoScans}

IsoCustomer(k) == IF k % 2 = 1 THEN "CUST001" ELSE "CUST002"

IsoUrl(k, pad) ==
    IF k % 3 = 0 THEN <<"https://x/">>
    ELSE IF pad /\ k = 1 THEN Padded(<<"https://w/">>)
    ELSE <<"https://w/">>

IsoScanSheet(layout, pattern, n, pad) ==
    [k \in 1..n |->
        ScanRow(layout, ScanId(k), IsoCustomer(k), IsoUrl(k, pad), 10 + k,
                RankDate(Rank(pattern, k, n)))]

IsoViolationSheet(n, pad) ==
    [k \in 1..n |->
        ViolationRow(<<"v">> \o TwoDigits(k),
                     IF pad THEN Padded(ScanId(k)) ELSE ScanId(k),
                     <<"r">> \o TwoDigits(k))]

InitIso ==
    /\ customers =
          << CustomerRow("CUST001", "professional", "tokA", "sessA", InitCell(2)),
             CustomerRow("CUST002", "professional", "tokB", "sessB", InitCell(1)) >>
    /\ subscriptions =
          << SubscriptionRow("CUST002", "active", DateString(<<FirstYear, 12, 31>>), <<>>),
             SubscriptionRow("CUST001", "active", DateString(<<FirstYear, 3, 15>>), <<>>) >>
    /\ \E layout \in Layouts, pattern \in Patterns, n \in IsoCounts, pad \in BOOLEAN :
          /\ scans = IsoScanSheet(layout, pattern, n, pad)
          /\ violations = IsoViolationSheet(n, pad)
    /\ now = 0
    /\ issuedAt = [i \in 1..2 |-> 0]
    /\ pc = [p \in Procs |-> "idle"]
    /\ req = [p \in Procs |-> NoReq]
    /\ local = [p \in Procs |-> NoLocal]
    /\ resp = [p \in Procs |-> NoResp]

NextIso ==
    \/ \E token \in {"tokA", "tokB"} : CustomerData(1, token, "")
    \/ \E id \in FrameIds : CustomerData(1, "", id)
    \/ \E id \in FrameIds : CustomerDataById(1, id)
    \/ \E token \in {"tokA", "tokB"} : CustomerDataByToken(1, token)
    \/ \E token \in {"sessA", "sessB"} : ProfessionalData(1, token)

SpecIso == InitIso /\ [][NextIso]_vars

(***************************************************************************)
(* Properties of the website list                                          *)
(***************************************************************************)
NoDuplicates(list) ==
    \A j, k \in 1..Len(list) : j # k => list[j] # list[k]

\* slot p serves a new request of the given kind in this step
Serves(p, kind) ==
    /\ pc[p] # "write"
    /\ req'[p].kind = kind
    /\ <<pc[p], req[p], resp[p]>> # <<pc'[p], req'[p], resp'[p]>>

\* slot p answers in this step without a write
AnswersWithoutWrite(p) == pc'[p] = "done" /\ customers' = customers

LimitError == ErrorResp(400, "Maximum 5 websites allowed")

DuplicateError == ErrorResp(400, "Website already exists")

PlanError == ErrorResp(403, "Professional plan required")

LastWebsiteError == ErrorResp(400, "Cannot remove last website")

WebsiteNotFoundError == ErrorResp(404, "Website not found")

\* C1: every stored website cell, split on commas and trimmed, holds between
\* 1 and 5 entries and no entry twice, after any interleaving of add-website
\* and remove-website requests.
C1_ListWithinBounds ==
    \A i \in 1..Len(customers) :
        LET list == ParseUrls(customers[i].c5) IN
            /\ Len(list) >= 1
            /\ Len(list) <= MAX_WEBSITES
            /\ NoDuplicates(list)

\* C2: the write of a website mutation stores the list computed from the cell
\* as it was read when the request was received, whatever the cell holds at
\* the time of the write, and the request is answered 200: the read and the
\* write are two Row-Store calls with nothing that orders them against
\* another request's calls.
C2_WriteFromSnapshot ==
    [][\A p \in Procs :
          (pc[p] = "write" /\ pc'[p] = "done") =>
              /\ resp'[p].status = 200
              /\ customers'[local[p].customerIndex].c5 =
                    IF req[p].kind = "add"
                    THEN Join(Append(local[p].currentUrls, Trim(req[p].url)))
                    ELSE LET Other(url) == url # Trim(req[p].url)
                         IN  Join(SelectSeq(local[p].currentUrls, Other))]_vars

\* two add-website requests with distinct plain URLs for one customer were
\* both answered 200 and the stored list holds only one of the two URLs
C2_LostUpdate ==
    \E p, q \in Procs, i \in 1..Len(customers) :
        /\ p # q
        /\ pc[p] = "done" /\ req[p].kind = "add" /\ resp[p].status = 200
        /\ pc[q] = "done" /\ req[q].kind = "add" /\ resp[q].status = 200
        /\ customers[i].c13 = req[p].token /\ customers[i].c13 = req[q].token
        /\ Len(req[p].url) = 1 /\ Len(req[q].url) = 1 /\ req[p].url # req[q].url
        /\ ~Includes(ParseUrls(customers[i].c5), req[p].url)
        /\ Includes(ParseUrls(customers[i].c5), req[q].url)

\* an add-website and a remove-website request for one customer were both
\* answered 200 and the stored list lacks the added URL or still holds the
\* removed one
C2_LostUpdateAddRemove ==
    \E p, q \in Procs, i \in 1..Len(customers) :
        /\ p # q
        /\ pc[p] = "done" /\ req[p].kind = "add" /\ resp[p].status = 200
        /\ pc[q] = "done" /\ req[q].kind = "remove" /\ resp[q].status = 200
        /\ customers[i].c13 = req[p].token /\ customers[i].c13 = req[q].token
        /\ Len(req[p].url) = 1 /\ Len(req[q].url) = 1 /\ req[p].url # req[q].url
        /\ \/ ~Includes(ParseUrls(customers[i].c5), req[p].url)
           \/ Includes(ParseUrls(customers[i].c5), req[q].url)

\* C3 as stated: an add-website call that carries a new URL, for a customer
\* whose stored list holds 5 URLs, is answered with the limit error and
\* writes nothing, whatever the plan and the new URL.
C3_AtFiveAlwaysLimitError ==
    [][\A p \in Procs, i \in 1..Len(customers) :
          ( /\ Serves(p, "add")
            /\ customers[i].c13 = req'[p].token
            /\ req'[p].url # <<>>
            /\ Len(ParseUrls(customers[i].c5)) = MAX_WEBSITES )
          => (resp'[p] = LimitError /\ AnswersWithoutWrite(p))]_vars

\* C3 amended: such a call writes nothing; it is answered with the limit
\* error when the customer's plan is professional and with the plan error
\* when it is not.
C3_AtFiveNoWrite ==
    [][\A p \in Procs, i \in 1..Len(customers) :
          ( /\ Serves(p, "add")
            /\ customers[i].c13 = req'[p].token
            /\ req'[p].url # <<>>
            /\ Len(ParseUrls(customers[i].c5)) = MAX_WEBSITES )
          => /\ AnswersWithoutWrite(p)
             /\ resp'[p] = IF customers[i].c6 = "professional"
                           THEN LimitError ELSE PlanError]_vars

\* an add-website call for a professional customer with 5 stored URLs was
\* answered with the limit error
C3_LimitAnswered ==
    \E p \in Procs, i \in 1..Len(customers) :
        /\ pc[p] = "done" /\ req[p].kind = "add" /\ resp[p] = LimitError
        /\ customers[i].c13 = req[p].token
        /\ customers[i].c6 = "professional"
        /\ Len(ParseUrls(customers[i].c5)) = MAX_WEBSITES

\* C4 as stated: an add-website call whose trimmed URL is an entry of the
\* customer's list is answered with the duplicate error and writes nothing.
C4_DuplicateAlwaysDuplicateError ==
    [][\A p \in Procs, i \in 1..Len(customers) :
          ( /\ Serves(p, "add")
            /\ customers[i].c13 = req'[p].token
            /\ Includes(ParseUrls(customers[i].c5), Trim(req'[p].url)) )
          => (resp'[p] = DuplicateError /\ AnswersWithoutWrite(p))]_vars

\* C4 amended: such a call writes nothing; it is answered with the duplicate
\* error when the customer's plan is professional and the list holds fewer
\* than 5 entries, with the limit error when the plan is professional and
\* the list holds 5 entries or more, and with the plan error otherwise.
C4_DuplicateNoWrite ==
    [][\A p \in Procs, i \in 1..Len(customers) :
          ( /\ Serves(p, "add")
            /\ customers[i].c13 = req'[p].token
            /\ Includes(ParseUrls(customers[i].c5), Trim(req'[p].url)) )
          => /\ AnswersWithoutWrite(p)
             /\ resp'[p] =
                   IF customers[i].c6 # "professional"
                   THEN PlanError
                   ELSE IF Len(ParseUrls(customers[i].c5)) >= MAX_WEBSITES
                   THEN LimitError
                   ELSE DuplicateError]_vars

\* an add-website call whose URL, once trimmed of the blanks around it, is
\* in the list of a professional customer was answered with the duplicate
\* error
C4_DuplicateAnswered ==
    \E p \in Procs, i \in 1..Len(customers) :
        /\ pc[p] = "done" /\ req[p].kind = "add" /\ resp[p] = DuplicateError
        /\ customers[i].c13 = req[p].token
        /\ req[p].url # Trim(req[p].url)
        /\ Includes(ParseUrls(customers[i].c5), Trim(req[p].url))

\* C5: a remove-website call naming the only URL of the customer's list is
\* answered with the last-website error, one naming a URL that is not in the
\* list is answered with the not-found error (also when the list holds one
\* entry), and neither writes.
C5_RemoveLastOrAbsent ==
    [][\A p \in Procs, i \in 1..Len(customers) :
          ( /\ Serves(p, "remove")
            /\ customers[i].c13 = req'[p].token
            /\ req'[p].url # <<>> )
          => LET list == ParseUrls(customers[i].c5)
                 named == Trim(req'[p].url)
             IN  /\ list = <<named>> =>
                       (resp'[p] = LastWebsiteError /\ AnswersWithoutWrite(p))
                 /\ ~Includes(list, named) =>
                       (resp'[p] = WebsiteNotFoundError /\ AnswersWithoutWrite(p))]_vars

\* a remove-website call naming the only URL of the list was answered with
\* the last-website error
C5_LastWebsiteAnswered ==
    \E p \in Procs, i \in 1..Len(customers) :
        /\ pc[p] = "done" /\ req[p].kind = "remove" /\ resp[p] = LastWebsiteError
        /\ customers[i].c13 = req[p].token
        /\ ParseUrls(customers[i].c5) = <<Trim(req[p].url)>>

\* C6: an add-website call for a customer whose plan is not professional is
\* answered with the plan error and writes nothing, whatever the length of
\* the list and the new URL, and no add-website write is ever pending for
\* such a customer; a professional-data call for such a customer is answered
\* with the plan error and no website data.
C6_PlanRequired ==
    [][/\ \A p \in Procs :
             (pc[p] = "write" /\ req[p].kind = "add") =>
                 customers[local[p].customerIndex].c6 = "professional"
       /\ \A p \in Procs, i \in 1..Len(customers) :
             ( /\ Serves(p, "add")
               /\ customers[i].c13 = req'[p].token
               /\ req'[p].url # <<>>
               /\ customers[i].c6 # "professional" )
             => (resp'[p] = PlanError /\ AnswersWithoutWrite(p))
       /\ \A p \in Procs, i \in 1..Len(customers) :
             ( /\ Serves(p, "professional-data")
               /\ customers[i].c15 = req'[p].token
               /\ customers[i].c6 # "professional" )
             => (resp'[p] = PlanError /\ resp'[p].websites = <<>>)]_vars

\* an add-website call with a well-formed new URL for a customer on the free
\* plan with 5 stored URLs was answered with the plan error
C6_PlanErrorAnswered ==
    \E p \in Procs, i \in 1..Len(customers) :
        /\ pc[p] = "done" /\ req[p].kind = "add" /\ resp[p] = PlanError
        /\ customers[i].c13 = req[p].token
        /\ customers[i].c6 = "free"
        /\ UrlParses(Trim(req[p].url))
        /\ Len(ParseUrls(customers[i].c5)) = MAX_WEBSITES

(***************************************************************************)
(* Properties of authentication                                            *)
(***************************************************************************)
\* the Customers row a customer-data request's credential resolves to
ResolvesTo(r, i) ==
    IF r.token # "" THEN customers[i].c11 = r.token
    ELSE customers[i].c0 = r.id

\* C7: a customer-data request whose credential (bearer token or
\* identifier) was issued more than 3600 seconds ago is rejected as expired
\* and receives no payload.
C7_LegacyAgeLimit ==
    [][\A p \in Procs, i \in 1..Len(customers) :
          ( /\ Serves(p, "customer-data")
            /\ ResolvesTo(req'[p], i)
            /\ now - issuedAt[i] > TOKEN_LIFETIME )
          => (resp'[p].status = 401 /\ resp'[p].customer_id = "")]_vars

HasExpired(token, t) ==
    /\ Len(token) = 3
    /\ "exp" \in DOMAIN token[2]
    /\ token[2].exp < t

WellSigned(token) ==
    /\ Len(token) = 3
    /\ token[3] = Hmac(<<token[1], token[2]>>, Secret)

\* C8: validate-session answers valid: true only for a token whose customer
\* identifier is that of a Customers row and which is the token on file in
\* that row; a token signed for the customer that is not the one on file
\* (an earlier login's token) is never answered valid: true.
C8_SingleActiveSession ==
    [][\A p \in Procs :
          Serves(p, "validate-session") =>
              /\ resp'[p].valid = "true" =>
                    \E i \in 1..Len(customers) :
                        /\ Len(req'[p].token) = 3
                        /\ customers[i].c0 = req'[p].token[2].customer_id
                        /\ customers[i].c15 = req'[p].token
              /\ \A i \in 1..Len(customers) :
                    ( /\ WellSigned(req'[p].token)
                      /\ req'[p].token[2].customer_id = customers[i].c0
                      /\ req'[p].token # customers[i].c15 )
                    => (resp'[p].valid # "true" /\ resp'[p].status # 200)]_vars

\* a well-signed token of a customer that has not expired and is no longer
\* the one on file was answered 401 as revoked
C8_RevokedAnswered ==
    \E p \in Procs, i \in 1..Len(customers) :
        /\ pc[p] = "done" /\ req[p].kind = "validate-session"
        /\ WellSigned(req[p].token)
        /\ req[p].token[2].customer_id = customers[i].c0
        /\ ~HasExpired(req[p].token, now) /\ "exp" \in DOMAIN req[p].token[2]
        /\ req[p].token[2].iat < customers[i].c15[2].iat
        /\ resp[p].status = 401 /\ resp[p].valid = "false" /\ resp[p].error = "Revoked"

\* C9 as stated: for a signed token whose expiry claim is earlier than the
\* current time, authentication returns Expired whether or not the signature
\* is valid, and validate-session does not answer valid: true.
C9_ExpiredWhateverSignature ==
    [][\A p \in Procs :
          ( /\ Serves(p, "validate-session")
            /\ HasExpired(req'[p].token, now)
            /\ req'[p].reachable /\ req'[p].secretAvailable )
          => /\ resp'[p].valid = "false"
             /\ resp'[p].status = 401
             /\ resp'[p].error = "Expired"]_vars

\* C9 amended: for such a token validate-session never answers valid: true;
\* when the validation service is reached it answers 401, and authentication
\* returns Expired when the signature is valid, InvalidSignature when it is
\* not, and SecretUnavailable when the signing secret is missing.
C9_ExpiredRejected ==
    [][\A p \in Procs :
          ( /\ Serves(p, "validate-session")
            /\ HasExpired(req'[p].token, now) )
          => /\ resp'[p].valid = "false"
             /\ resp'[p].status # 200
             /\ req'[p].reachable =>
                   /\ resp'[p].status = 401
                   /\ resp'[p].error =
                         IF ~req'[p].secretAvailable THEN "SecretUnavailable"
                         ELSE IF ~WellSigned(req'[p].token) THEN "InvalidSignature"
                         ELSE "Expired"]_vars

\* the token on file of a customer, presented after its expiry, was answered
\* 401 as expired
C9_ExpiredAnswered ==
    \E p \in Procs, i \in 1..Len(customers) :
        /\ pc[p] = "done" /\ req[p].kind = "validate-session"
        /\ req[p].token = customers[i].c15
        /\ HasExpired(req[p].token, now)
        /\ resp[p].status = 401 /\ resp[p].valid = "false" /\ resp[p].error = "Expired"

(***************************************************************************)
(* Properties of subscription cancellation                                 *)
(***************************************************************************)
\* the day after a calendar day, by the rules of the calendar
NextCalendarDay(ymd) ==
    IF ymd[3] < DaysInMonth(ymd[1], ymd[2]) THEN <<ymd[1], ymd[2], ymd[3] + 1>>
    ELSE IF ymd[2] < 12 THEN <<ymd[1], ymd[2] + 1, 1>>
    ELSE <<ymd[1] + 1, 1, 1>>

\* the year, month and day written in a ten-character date string
YmdOf(s) ==
    <<DigitsValue(SubSeq(s, 1, 4)), DigitsValue(SubSeq(s, 6, 7)),
      DigitsValue(SubSeq(s, 9, 10))>>

IsCalendarDate(s) ==
    /\ Len(s) = 10
    /\ YmdOf(s) \in CalendarDays
    /\ DateString(YmdOf(s)) = s

\* the string of the day after the calendar date written in s
DayAfterString(s) == DateString(NextCalendarDay(YmdOf(s)))

\* C10: for every calendar date d given as current_period_end and every
\* customer_id that has a Subscriptions row, cancel-subscription goes on to
\* the update, which writes status 'cancelled' and cancelled_date = d + 1
\* day, formatted YYYY-MM-DD, to the customer's row and answers 200 with the
\* same date and status.
C10_CancelWritesNextDay ==
    [][\A p \in Procs :
          /\ ( /\ Serves(p, "cancel-subscription")
               /\ IsCalendarDate(req'[p].current_period_end)
               /\ \E i \in 1..Len(subscriptions) :
                     subscriptions[i].c0 = req'[p].customer_id )
             => pc'[p] = "write"
          /\ ( /\ pc[p] = "write" /\ pc'[p] = "done"
               /\ req[p].kind = "cancel-subscription" )
             => \E i \in 1..Len(subscriptions) :
                   /\ subscriptions[i].c0 = req[p].customer_id
                   /\ subscriptions'[i].c4 = "cancelled"
                   /\ subscriptions'[i].c9 = DayAfterString(req[p].current_period_end)
                   /\ resp'[p].status = 200
                   /\ resp'[p].cancellation_date = DayAfterString(req[p].current_period_end)
                   /\ resp'[p].subscription_status = "cancelled"]_vars

\* a subscription whose period ends on the last day of a year was
\* cancelled, with the first day of the next year as its cancelled_date
C10_YearEndCancelled ==
    \E p \in Procs, i \in 1..Len(subscriptions) :
        /\ pc[p] = "done" /\ req[p].kind = "cancel-subscription"
        /\ req[p].customer_id = subscriptions[i].c0
        /\ req[p].current_period_end = DateString(<<FirstYear, 12, 31>>)
        /\ resp[p].status = 200
        /\ subscriptions[i].c4 = "cancelled"
        /\ subscriptions[i].c9 = DateString(<<FirstYear + 1, 1, 1>>)
        /\ resp[p].cancellation_date = subscriptions[i].c9

\* C11: in every reachable state of the Subscriptions store, a row whose
\* cancelled_date is set has cancelled_date equal to the day after the
\* current_period_end stored in that same row.
C11_CancelledDateFollowsPeriodEnd ==
    \A i \in 1..Len(subscriptions) :
        subscriptions[i].c9 # <<>> =>
            subscriptions[i].c9 = DayAfterString(subscriptions[i].c6)

(***************************************************************************)
(* Properties of the aggregation                                           *)
(***************************************************************************)
\* the Scan Summary sheet holds its scan dates in cell 10, as documented
DocumentedLayout == \A i \in 1..Len(scans) : IsIsoDate(scans[i].c10)

\* the rows of the Scan Summary sheet that belong to a customer
ScansOf(customerId) == {i \in 1..Len(scans) : scans[i].c1 = customerId}

Min(a, b) == IF a < b THEN a ELSE b

\* h is the series of the most recent scans of the customer, oldest first,
\* each entry with the date and the score of its scan
IsRecentHistory(h, customerId) ==
    LET mine == ScansOf(customerId)
        Day(cell) == DateParse(cell)
    IN  /\ Len(h) = Min(Cardinality(mine), HISTORY_LENGTH)
        /\ \A i, j \in 1..Len(h) : i < j => Day(h[i].date) <= Day(h[j].date)
        /\ \A i \in 1..Len(h) :
              \E r \in mine : /\ scans[r].c10 = h[i].date
                              /\ scans[r].c4 = NumberString(h[i].score)
        /\ \A i \in 1..Len(h) :
              Cardinality({j \in 1..Len(h) : h[j] = h[i]})
                 <= Cardinality({r \in mine : /\ scans[r].c10 = h[i].date
                                               /\ scans[r].c4 = NumberString(h[i].score)})
        /\ Len(h) > 0 =>
              Cardinality({r \in mine : Day(scans[r].c10) > Day(h[1].date)})
                 = Cardinality({j \in 1..Len(h) : Day(h[j].date) > Day(h[1].date)})

\* C12: for a customer with n scans the historical series of customer-data
\* has min(n, 10) entries, which are the most recent scans by scan date,
\* ordered oldest to newest, each with the date and the score of its scan.
C12_HistoricalLastTen ==
    [][\A p \in Procs :
          ( /\ Serves(p, "customer-data")
            /\ resp'[p].status = 200
            /\ DocumentedLayout )
          => IsRecentHistory(resp'[p].historical, resp'[p].customer_id)]_vars

\* a customer with more than ten scans, not in date order on the sheet,
\* was answered with a series of ten
C12_ElevenScansAnswered ==
    \E p \in Procs :
        /\ pc[p] = "done" /\ req[p].kind = "customer-data" /\ resp[p].status = 200
        /\ DocumentedLayout
        /\ Cardinality(ScansOf(resp[p].customer_id)) > HISTORY_LENGTH
        /\ Len(resp[p].historical) = HISTORY_LENGTH
        /\ \E i, j \in ScansOf(resp[p].customer_id) :
              i < j /\ DateParse(scans[i].c10) > DateParse(scans[j].c10)

\* row r of the Scan Summary sheet is a most recent scan of the customer
IsMostRecent(r, customerId) ==
    /\ r \in ScansOf(customerId)
    /\ \A q \in ScansOf(customerId) :
          DateParse(scans[q].c10) <= DateParse(scans[r].c10)

\* the payload's score, lastScan, scan_summary and violations are those of
\* scan row r
RefersToScan(payload, r) ==
    /\ NumberString(payload.score) = scans[r].c4
    /\ payload.lastScan = scans[r].c10
    /\ payload.scan_summary # <<>>
    /\ payload.scan_summary[1].scan_id = scans[r].c0
    /\ \A i \in 1..Len(payload.violations) :
          \E v \in 1..Len(violations) :
              /\ violations[v].c4 = payload.violations[i].rule_id
              /\ Trim(violations[v].c1) = Trim(scans[r].c0)
    /\ payload.score = payload.historical[Len(payload.historical)].score

\* C13: the payload of customer-data (either handler of customer-data.js)
\* refers to the customer's most recent scan, the one with the maximum scan
\* date; score is the score of the last entry of historical; with no scan,
\* score is 0 and scan_summary is null.
C13_PayloadOfMostRecentScan ==
    [][\A p \in Procs :
          ( /\ Serves(p, "customer-data") \/ Serves(p, "customer-data-by-id")
            /\ resp'[p].status = 200
            /\ DocumentedLayout )
          => IF ScansOf(resp'[p].customer_id) = {}
             THEN resp'[p].score = 0 /\ resp'[p].scan_summary = <<>>
             ELSE \E r \in ScansOf(resp'[p].customer_id) :
                     /\ IsMostRecent(r, resp'[p].customer_id)
                     /\ RefersToScan(resp'[p], r)]_vars

\* the rule identifiers of the Violations rows whose scan identifier equals
\* scanId once both are trimmed, in sheet order
ViolationsOfScan(scanId) ==
    LET found == SelectSeq(violations, LAMBDA v : Trim(v.c1) = Trim(scanId))
    IN  [i \in 1..Len(found) |-> [rule_id |-> found[i].c4]]

\* C14: in every aggregator path (the handlers of customer-data.js and each
\* website of professional-data) the violations of the payload are exactly
\* the Violations rows whose scan identifier equals that of the latest scan
\* after trimming; a row that differs only by surrounding blanks is included.
C14_ViolationsMatchedNormalized ==
    [][\A p \in Procs :
          /\ ( /\ Serves(p, "customer-data") \/ Serves(p, "customer-data-by-id")
               /\ resp'[p].status = 200
               /\ resp'[p].scan_summary # <<>> )
             => resp'[p].violations = ViolationsOfScan(resp'[p].scan_summary[1].scan_id)
          /\ ( /\ Serves(p, "professional-data")
               /\ resp'[p].status = 200 )
             => \A w \in 1..Len(resp'[p].websites) :
                   resp'[p].websites[w].latest_scan # <<>> =>
                      resp'[p].websites[w].violations =
                         ViolationsOfScan(resp'[p].websites[w].latest_scan[1].scan_id)]_vars

\* the professional-data response of a resolved professional customer with
\* the websites given
NoScansOfWebsite(customerId, url) ==
    \A i \in 1..Len(scans) : ~(scans[i].c1 = customerId /\ scans[i].c4 = url)

HasSubscription(customerId) ==
    \E i \in 1..Len(subscriptions) : subscriptions[i].c0 = customerId

\* C15: for a credential that resolves to a Customer, a missing Subscription
\* row, an empty set of scans or an empty set of violations never produces
\* an error: customer-data and professional-data answer 200, with
\* subscription null, scan_summary (latest_scan) null and empty violations
\* and historical collections respectively.
C15_MissingDataIsNotAnError ==
    [][\A p \in Procs :
          /\ ( /\ Serves(p, "customer-data")
               /\ \E i \in 1..Len(customers) : ResolvesTo(req'[p], i) )
             => /\ resp'[p].status = 200
                /\ ~HasSubscription(resp'[p].customer_id) => resp'[p].subscription = <<>>
                /\ ScansOf(resp'[p].customer_id) = {} =>
                      /\ resp'[p].scan_summary = <<>>
                      /\ resp'[p].historical = <<>>
                      /\ resp'[p].violations = <<>>
                /\ violations = <<>> => resp'[p].violations = <<>>
          /\ ( /\ Serves(p, "professional-data")
               /\ \E i \in 1..Len(customers) :
                     /\ req'[p].token # "" /\ customers[i].c15 = req'[p].token
                     /\ customers[i].c6 = "professional" )
             => /\ resp'[p].status = 200
                /\ \A i \in 1..Len(customers) :
                      (customers[i].c15 = req'[p].token /\ ~HasSubscription(customers[i].c0))
                      => resp'[p].subscription = <<>>
                /\ \A w \in 1..Len(resp'[p].websites) :
                      /\ (\A i \in 1..Len(customers) :
                             customers[i].c15 = req'[p].token =>
                                NoScansOfWebsite(customers[i].c0,
                                                 resp'[p].websites[w].website_url))
                         => /\ resp'[p].websites[w].latest_scan = <<>>
                            /\ resp'[p].websites[w].historical = <<>>
                            /\ resp'[p].websites[w].violations = <<>>
                      /\ violations = <<>> => resp'[p].websites[w].violations = <<>>]_vars

\* a professional customer without subscription and without scans was
\* answered 200 with null and empty fields
C15_EmptyProfessionalAnswered ==
    \E p \in Procs, i \in 1..Len(customers) :
        /\ pc[p] = "done" /\ req[p].kind = "professional-data"
        /\ customers[i].c15 = req[p].token
        /\ ~HasSubscription(customers[i].c0)
        /\ ScansOf(customers[i].c0) = {}
        /\ resp[p].status = 200
        /\ resp[p].subscription = <<>>
        /\ Len(resp[p].websites) > 0
        /\ resp[p].websites[1].latest_scan = <<>>

AggregatorKinds ==
    {"customer-data", "customer-data-by-id", "customer-data-by-token",
     "professional-data"}

C17_SessionErrorsCarryValidFalse ==
    [][\A p \in Procs :
          ( /\ Serves(p, "validate-session")
            /\ resp'[p].status >= 400 )
          => (resp'[p].error # "" /\ resp'[p].valid = "false")]_vars

\* C18: every customer-data handler answers a request with neither a bearer
\* token nor an identifier with 400, and a bearer token or identifier that
\* matches no Customers row with 404.
C18_MissingCredential400Unknown404 ==
    [][\A p \in Procs :
          ( \/ Serves(p, "customer-data")
            \/ Serves(p, "customer-data-by-id")
            \/ Serves(p, "customer-data-by-token") )
          => /\ (req'[p].token = "" /\ req'[p].id = "") => resp'[p].status = 400
             /\ ( /\ req'[p].token # "" \/ req'[p].id # ""
                  /\ \A i \in 1..Len(customers) : ~ResolvesTo(req'[p], i) )
                => resp'[p].status = 404]_vars

(***************************************************************************)
(* Properties of independence                                              *)
(***************************************************************************)
\* slot p completes the write of a request of the given kind
Writes(p, kind) == pc[p] = "write" /\ pc'[p] = "done" /\ req[p].kind = kind

\* C19: under any interleaving, a Customers row changes only in its
\* website-URL cell and only by the write of an add-website or
\* remove-website request resolved to that customer, and a Subscriptions
\* row only in its status and cancelled_date cells and only by the write of
\* a cancel request for that customer; no row is added or removed.
C19_OnlyOwnCellsChange ==
    [][/\ Len(customers') = Len(customers)
       /\ Len(subscriptions') = Len(subscriptions)
       /\ \A j \in 1..Len(customers) :
             customers'[j] # customers[j] =>
                /\ customers'[j] = [customers[j] EXCEPT !.c5 = customers'[j].c5]
                /\ \E p \in Procs :
                      /\ Writes(p, "add") \/ Writes(p, "remove")
                      /\ customers[j].c13 = req[p].token
       /\ \A j \in 1..Len(subscriptions) :
             subscriptions'[j] # subscriptions[j] =>
                /\ subscriptions'[j] =
                      [subscriptions[j] EXCEPT !.c4 = subscriptions'[j].c4,
                                               !.c9 = subscriptions'[j].c9]
                /\ \E p \in Procs :
                      /\ Writes(p, "cancel-subscription")
                      /\ subscriptions[j].c0 = req[p].customer_id]_vars

\* both customers' lists and one subscription have been written while the
\* other client's request was between its read and its write
C19_InterleavedWrites ==
    \E p, q \in Procs :
        /\ p # q
        /\ pc[p] = "done" /\ resp[p].status = 200
        /\ pc[q] = "write"
        /\ req[p].kind \in {"add", "remove"}
        /\ req[q].kind = "cancel-subscription"
        /\ customers[1].c5 # InitCell(2)
        /\ customers[2].c5 # InitCell(2)
        /\ \E j \in 1..Len(subscriptions) : subscriptions[j].c4 = "cancelled"

(***************************************************************************)
(* Properties of the method check                                          *)
(***************************************************************************)
ReadHandlers ==
    {"customer-data", "customer-data-by-id", "customer-data-by-token",
     "professional-data"}

\* C20: every handler answers OPTIONS with 200 and no body and any method
\* other than its own (GET for the read handlers, POST for the others) with
\* 405; in both cases it finishes without a pending write, with nothing
\* read into its locals, and leaves every sheet unchanged.  A request with
\* the handler's own method is not answered by the method check.
C20_OptionsAndForeignMethods ==
    [][\A p \in Procs :
          <<pc[p], req[p], resp[p]>> # <<pc'[p], req'[p], resp'[p]>> =>
             LET own == IF req'[p].kind \in ReadHandlers THEN "GET" ELSE "POST"
             IN  /\ req'[p].method # own
                 /\ req'[p].method = "OPTIONS" =>
                       resp'[p].status = 200 /\ ~resp'[p].body
                 /\ req'[p].method # "OPTIONS" =>
                       resp'[p].status = 405 /\ resp'[p].error # ""
                 /\ pc'[p] = "done" /\ local'[p] = NoLocal
                 /\ UNCHANGED <<customers, subscriptions, scans, violations>>]_vars

\* a read handler has answered a POST with 405 and a mutating handler an
\* OPTIONS with 200
C20_BothAnswered ==
    \E p, q \in Procs :
        /\ pc[p] = "done" /\ req[p].kind \in ReadHandlers /\ req[p].method = "POST"
        /\ resp[p].status = 405
        /\ pc[q] = "done" /\ req[q].kind = "add" /\ req[q].method = "OPTIONS"
        /\ resp[q].status = 200 /\ ~resp[q].body

(***************************************************************************)
(* Properties of Row-Store failures                                        *)
(***************************************************************************)
\* the response of slot p is the answer of a catch block to a Row-Store
\* call that raised
AnsweredFailure(r) == "details" \in DOMAIN r /\ r.details = RowStoreError

\* C21: a Row-Store call that raises ends the request: the step in which a
\* handler answers a raised call sends status 500 as the only response of
\* the request, leaves the handler finished with no call pending, and
\* changes no sheet; when the call was the write of add-website,
\* remove-website or cancel, the request had no response before, its row is
\* as it was, and the response is not the 200 one.  A finished handler
\* changes no sheet.
C21_FailedCallFailsRequest ==
    [][\A p \in Procs :
          /\ ( /\ <<pc[p], req[p], resp[p]>> # <<pc'[p], req'[p], resp'[p]>>
               /\ AnsweredFailure(resp'[p]) )
             => /\ resp'[p].status = 500
                /\ resp'[p].error # ""
                /\ pc'[p] = "done"
                /\ UNCHANGED <<customers, subscriptions, scans, violations>>
                /\ pc[p] = "write" => /\ req'[p] = req[p]
                                      /\ resp[p] = NoResp
          /\ (pc[p] = "write" /\ pc'[p] # "write")
             => /\ pc'[p] = "done"
                /\ req'[p] = req[p]
                /\ resp'[p].status \in {200, 500}
                /\ resp'[p].status = 200 => ~AnsweredFailure(resp'[p])
          /\ (pc[p] # "write" /\ \A q \in Procs : pc[q] = "write" => pc'[q] = "write")
             => UNCHANGED <<customers, subscriptions, scans, violations>>]_vars

\* the write of an add-website request has raised while the write of a
\* cancel request has succeeded: the website cell is as it was at the start
\* and the first slot has the 500 response
C21_WriteRaised ==
    \E p, q \in Procs :
        /\ pc[p] = "done" /\ req[p].kind = "add" /\ req[p].token = "tokA"
        /\ AnsweredFailure(resp[p]) /\ resp[p].status = 500
        /\ customers[1].c5 = InitCell(2)
        /\ pc[q] = "done" /\ req[q].kind = "cancel-subscription"
        /\ resp[q].status = 200

(***************************************************************************)
(* Properties of the plan check of remove-website                          *)
(***************************************************************************)
\* C22: remove-website writes only for professional customers: a step in
\* which a remove-website request changes the Customers sheet changes the
\* row of a customer whose plan is professional.
C22_RemoveOnlyProfessional ==
    [][\A p \in Procs, i \in 1..Len(customers) :
          ( /\ pc[p] = "write" /\ req[p].kind = "remove" /\ pc'[p] = "done"
            /\ customers'[i] # customers[i] )
          => customers[i].c6 = "professional"]_vars

(***************************************************************************)
(* Properties of the persisted website cell                                *)
(***************************************************************************)
\* C23: after a successful add-website the cell written, split on commas,
\* trimmed and without empty entries, is the websites array of the 200
\* response, and that array is the previous entries in their order followed
\* by the trimmed new URL as one entry.
C23_PersistedListIsResponse ==
    [][\A p \in Procs :
          ( /\ pc[p] = "write" /\ req[p].kind = "add"
            /\ pc'[p] = "done" /\ resp'[p].status = 200 )
          => LET i == local[p].customerIndex
             IN  /\ resp'[p].websites =
                       Append(ParseUrls(customers[i].c5), Trim(req[p].url))
                 /\ ParseUrls(customers'[i].c5) = resp'[p].websites]_vars

(***************************************************************************)
(* Properties of bearer-token resolution                                   *)
(***************************************************************************)
\* customer-data accepts token t as the customer of row i
AcceptsAs(t, i) ==
    /\ t # ""
    /\ customers[i].c11 = t
    /\ \A j \in 1..(i - 1) : customers[j].c11 # t

\* C25: a token that customer-data accepts as the customer of row i is
\* resolved to row i by professional-data, add-website and remove-website
\* over the same sheet: none of them answers that the customer is unknown,
\* professional-data returns the websites of row i, and a write of
\* add-website or remove-website is for row i.
C25_SameCustomerEveryHandler ==
    [][\A p \in Procs, i \in 1..Len(customers) :
          /\ (Serves(p, "professional-data") /\ AcceptsAs(req'[p].token, i))
             => /\ resp'[p].status # 404
                /\ resp'[p].status = 200 =>
                      /\ Len(resp'[p].websites) = Len(ParseUrls(customers[i].c5))
                      /\ \A w \in 1..Len(resp'[p].websites) :
                            resp'[p].websites[w].website_url =
                               ParseUrls(customers[i].c5)[w]
          /\ ( /\ Serves(p, "add") \/ Serves(p, "remove")
               /\ AcceptsAs(req'[p].token, i) )
             => /\ resp'[p] # ErrorResp(404, "Customer not found")
                /\ pc'[p] = "write" => local'[p].customerIndex = i]_vars

(***************************************************************************)
(* Properties of data isolation                                            *)
(***************************************************************************)
\* the Scan Summary rows of a customer
RowsOf(customerId) == {scans[i] : i \in ScansOf(customerId)}

\* the cells of a scan row other than the customer identifier
Cells(row) == {row[f] : f \in DOMAIN row \ {"c1"}}

\* the website URL of a scan row: cell 2 of an A:M row, cell 4 of an A:W row
UrlCell(row) == IF row.c2 # <<>> THEN row.c2 ELSE row.c4

\* the entry of a history is drawn from the cells of one of the rows
DrawnFrom(entry, rows) ==
    \E s \in rows :
        /\ entry.date \in Cells(s)
        /\ entry.score \in {ParseIntOrZero(c) : c \in Cells(s)}

\* every violation of the list is a Violations row of the scan identified
ViolationsBelongTo(list, scanId) ==
    \A v \in 1..Len(list) :
        \E j \in 1..Len(violations) :
            /\ violations[j].c4 = list[v].rule_id
            /\ Trim(violations[j].c1) = Trim(scanId)

\* C24: the 200 payload for a credential that resolves to a customer holds
\* only that customer's subscription row, a latest scan and a history drawn
\* from that customer's scans, and violations of that latest scan; each
\* website entry of professional-data is drawn from that customer's scans
\* of exactly that URL.  Nothing of another customer's rows is in it.
C24_PayloadOfOneCustomer ==
    [][\A p \in Procs :
          /\ ( /\ \/ Serves(p, "customer-data")
                  \/ Serves(p, "customer-data-by-id")
                  \/ Serves(p, "customer-data-by-token")
               /\ resp'[p].status = 200 )
             => LET C == resp'[p].customer_id
                    r == req'[p]
                IN  /\ \E i \in 1..Len(customers) :
                          /\ customers[i].c0 = C
                          /\ \/ customers[i].c11 = r.token /\ r.token # ""
                             \/ "id" \in DOMAIN r /\ r.token = "" /\ r.id = C
                    /\ "subscription" \in DOMAIN resp'[p] =>
                          \/ resp'[p].subscription = <<>>
                          \/ resp'[p].subscription[1].c0 = C
                    /\ resp'[p].scan_summary # <<>> =>
                          \E s \in RowsOf(C) : s.c0 = resp'[p].scan_summary[1].scan_id
                    /\ resp'[p].scan_summary = <<>> => resp'[p].violations = <<>>
                    /\ resp'[p].scan_summary # <<>> =>
                          ViolationsBelongTo(resp'[p].violations,
                                             resp'[p].scan_summary[1].scan_id)
                    /\ \A h \in 1..Len(resp'[p].historical) :
                          DrawnFrom(resp'[p].historical[h], RowsOf(C))
          /\ (Serves(p, "professional-data") /\ resp'[p].status = 200)
             => \E i \in 1..Len(customers) :
                   /\ customers[i].c15 = req'[p].token
                   /\ resp'[p].subscription # <<>> =>
                         resp'[p].subscription[1].c0 = customers[i].c0
                   /\ \A w \in 1..Len(resp'[p].websites) :
                         LET e == resp'[p].websites[w]
                             own == {s \in RowsOf(customers[i].c0) :
                                        UrlCell(s) = e.website_url}
                         IN  /\ e.latest_scan # <<>> =>
                                   /\ \E s \in own : s.c0 = e.latest_scan[1].scan_id
                                   /\ ViolationsBelongTo(e.violations,
                                                         e.latest_scan[1].scan_id)
                             /\ e.latest_scan = <<>> => e.violations = <<>>
                             /\ \A h \in 1..Len(e.historical) :
                                   DrawnFrom(e.historical[h], own)]_vars

\* a dashboard with a latest scan, a history and violations has been
\* answered for a customer while the sheets hold at least as many scans and
\* violations of the other customer, one of them with the latest date
C24_SharedSheetsAnswered ==
    /\ pc[1] = "done" /\ req[1].kind = "customer-data" /\ resp[1].status = 200
    /\ resp[1].customer_id = "CUST002"
    /\ resp[1].scan_summary # <<>>
    /\ Len(resp[1].historical) >= 2
    /\ resp[1].violations # <<>>
    /\ resp[1].subscription # <<>>
    /\ DocumentedLayout
    /\ \E s \in RowsOf("CUST001") : \A t \in RowsOf("CUST002") :
          DateParse(s.c10) > DateParse(t.c10)

====
